---- MODULE Spec2Model ----
(***************************************************************************)
(* A state-machine model of ghostferry's appliers:                         *)
(*   - BinlogWriter (Run, applyBatch, writeEvents, the schema barrier and  *)
(*     the DDL callbacks) together with the threads that call              *)
(*     BufferBinlogEvents, DataIteratorDoneEvent and Stop;                 *)
(*   - BatchWriter (WriteRowBatch, writeInsertRowBatch, writeInitRowBatch) *)
(*     run by several concurrent writers;                                  *)
(*   - RelocFerry.Run, the cutover of a sharded move;                      *)
(*   - the state tracker: its table actions, the state tables on the       *)
(*     target and MinBinlogPosition.                                       *)
(* Spec is the BinlogWriter system, SpecBatch the BatchWriter system,      *)
(* SpecReloc the cutover, SpecMin, SpecState and SpecTracker the state     *)
(* tracker; SpecLive is Spec with a fairly scheduled Run goroutine,        *)
(* SpecBarrier adds a fairly scheduled caller of DataIteratorDoneEvent,    *)
(* and SpecRetry puts the two retry wrappers side by side.                 *)
(***************************************************************************)
EXTENDS Integers, Sequences, FiniteSets, TLC

\* ------------------------------------------------------------------ bounds
\* replication events the binlog streamer produces in one run
MaxEvents == 2
\* largest configured BatchSize (the queue capacity and the batch limit)
MaxBatchSize == 2
\* largest configured WriteRetries
MaxWriteRetries == 2
\* injected failures (database errors, state-writer errors) in one run
MaxFaults == 1
\* calls of DataIteratorDoneEvent in one run
MaxDoneCalls == 2
\* binlog events the streamer may be behind the source
MaxLag == 2
\* rows the test harness adds to the row-copy-state table
MaxStateRows == 2
\* calls of NewStateTrackerFromTargetDB in one run
MaxLoads == 3

\* ------------------------------------------------------- program constants
eventChannelDataIterationDone == "dataIterationDone"
shutdownEvent == "binlog-writer shutting down"

Tables == {"t1", "t2"}
NoTable == "none"

VARIABLES
    \* configuration of the BinlogWriter / BatchWriter (never changes)
    BatchSize, WriteRetries, ApplySchemaChanges, ForceResumeStateUpdatesToDB,
    StateTracker, InlineVerifier,
    \* BinlogWriter: channels and the atomic counter
    binlogEventBuffer, bufferClosed, eventChannel, channelClosed,
    dataIteratorDone, doneSynced,
    \* BinlogWriter: the Run goroutine
    pc, batch, replicationEvent, dxlEvents, applying, ret, idx, attempt,
    \* schema cache, target database, state tracker
    TableSchema, targetSchema, written, persistedPosition,
    lastWrittenBinlogPosition, tableAction,
    \* ErrorHandler.Fatal calls and runtime panics
    fatal, panicked,
    \* environment: streamer, data iterator, Stop
    sourceSchema, produced, doneCalls, donePending, stopPc, faults,
    \* BatchWriter: one record per writer goroutine, the target rows, the
    \* state tracker's pagination keys and the batches already handed out
    bw, committed, lastSuccessfulPaginationKeys, taken,
    \* BinlogWriter, for the record: the DXL events handleReplicationEvent has
    \* returned so far, and the sentinels put on the control channel
    translated, sent,
    \* RelocFerry.Run: its position, the Ferry it runs (tables still to copy,
    \* the binlog streamer's lag and state, whether Ferry.Run has returned),
    \* the source's cutover lock and the cutover steps done so far
    relocPc, tablesToCopy, streamerLag, streaming, ferryRunning, sourceLock,
    relocLog, JoinedTables, deltaCopied,
    \* state tracker persistence: the state tables on the target, the
    \* source's master position, the results of NewStateTrackerFromTargetDB
    \* and of Serialize, and a SerializableState with its MinBinlogPosition
    stateTables, masterPos, loaded, serialized, serializableState, minPosition

cfgVars == <<BatchSize, WriteRetries, ApplySchemaChanges,
             ForceResumeStateUpdatesToDB, StateTracker, InlineVerifier>>
chanVars == <<binlogEventBuffer, bufferClosed, eventChannel, channelClosed,
              dataIteratorDone, doneSynced>>
runVars == <<pc, batch, replicationEvent, dxlEvents, applying, ret, idx, attempt>>
dbVars == <<TableSchema, targetSchema, written, persistedPosition,
            lastWrittenBinlogPosition, tableAction>>
errVars == <<fatal, panicked>>
envVars == <<sourceSchema, produced, doneCalls, donePending, stopPc, faults>>
batchVars == <<bw, committed, lastSuccessfulPaginationKeys, taken>>
histVars == <<translated, sent>>
relocVars == <<relocPc, tablesToCopy, streamerLag, streaming, ferryRunning,
               sourceLock, relocLog, JoinedTables, deltaCopied>>
stateVars == <<stateTables, masterPos, loaded, serialized, serializableState,
               minPosition>>
vars == <<cfgVars, chanVars, runVars, dbVars, errVars, envVars, batchVars,
          histVars, relocVars, stateVars>>

\* ----------------------------------------------------------------- helpers
Last(s) == s[Len(s)]
Range(s) == {s[i] : i \in 1..Len(s)}
Max(a, b) == IF a >= b THEN a ELSE b

\* ------------------------------------------------ replication events (input)
\* A schema-change descriptor as QueryAnalyzer.ParseSchemaChanges returns it.
\* applicable is the answer of TableFilter.ApplicableDatabases for the
\* descriptor's database: "yes", "no" or "err".
Desc(op, affected, deleted, created, isChange, applicable) ==
    [op |-> op, AffectedTable |-> affected, DeletedTable |-> deleted,
     CreatedTable |-> created, IsSchemaChange |-> isChange,
     applicable |-> applicable]

CreateT2 == Desc("create", "t2", NoTable, "t2", TRUE, "yes")
AlterT1 == Desc("alter", "t1", NoTable, NoTable, TRUE, "yes")
DropT1 == Desc("drop", "t1", "t1", NoTable, TRUE, "yes")
RenameT1T2 == Desc("rename", "t1", "t1", "t2", TRUE, "yes")
TruncateT1 == Desc("truncate", "t1", NoTable, NoTable, FALSE, "yes")
AlterOtherDb == Desc("alter", "t1", NoTable, NoTable, TRUE, "no")
AlterFilterErr == Desc("alter", "t1", NoTable, NoTable, TRUE, "err")

\* A ReplicationEvent: kind "rows" (rows holds, per row operation, the answer
\* of CopyFilter.ApplicableDMLEvent: "yes", "no" or "err"), kind "query"
\* (descs is the analyzer's result, parseErr its error) or another kind the
\* writer does not support.  pos is the binlog position.
RowsEvent(table, rows) ==
    [kind |-> "rows", table |-> table, rows |-> rows, descs |-> <<>>,
     parseErr |-> FALSE, pos |-> 0]
QueryEvent(descs, parseErr) ==
    [kind |-> "query", table |-> NoTable, rows |-> <<>>, descs |-> descs,
     parseErr |-> parseErr, pos |-> 0]
OtherEvent ==
    [kind |-> "other", table |-> NoTable, rows |-> <<>>, descs |-> <<>>,
     parseErr |-> FALSE, pos |-> 0]
NoEvent ==
    [kind |-> "nil", table |-> NoTable, rows |-> <<>>, descs |-> <<>>,
     parseErr |-> FALSE, pos |-> 0]

RowsShapes == {<<"yes">>, <<"yes", "no", "yes">>, <<"err">>}
QueryShapes == {<<CreateT2>>, <<AlterT1>>, <<DropT1>>, <<RenameT1T2>>,
                <<AlterT1, CreateT2>>, <<AlterOtherDb, TruncateT1>>,
                <<AlterFilterErr>>, <<>>}

\* The source database's tables after a DDL statement.
SourceAfterDesc(src, d) ==
    CASE d.op = "create" -> src \cup {d.AffectedTable}
      [] d.op = "drop" -> src \ {d.DeletedTable}
      [] d.op = "rename" -> (src \ {d.DeletedTable}) \cup {d.CreatedTable}
      [] OTHER -> src

\* Whether the source database can have executed the statement.
DescValidOn(src, d) ==
    CASE d.op = "create" -> d.AffectedTable \notin src
      [] d.op = "rename" -> d.DeletedTable \in src /\ d.CreatedTable \notin src
      [] OTHER -> d.AffectedTable \in src

RECURSIVE DescsValidOn(_, _)
DescsValidOn(src, descs) ==
    IF descs = <<>> THEN TRUE
    ELSE /\ DescValidOn(src, Head(descs))
         /\ DescsValidOn(SourceAfterDesc(src, Head(descs)), Tail(descs))

RECURSIVE SourceAfter(_, _)
SourceAfter(src, descs) ==
    IF descs = <<>> THEN src
    ELSE SourceAfter(SourceAfterDesc(src, Head(descs)), Tail(descs))

\* The events the binlog of a source with tables src can hold next.
NextSourceEvents(src) ==
    {RowsEvent(t, r) : t \in src, r \in RowsShapes}
    \cup {QueryEvent(d, FALSE) : d \in {q \in QueryShapes : DescsValidOn(src, q)}}
    \cup {QueryEvent(<<>>, TRUE), OtherEvent}

\* ---------------------------------------------------------------- DXL events
\* A DXLEventWrapper: the DXL event (DML or DDL), the position of its
\* ReplicationEvent, and what its callbacks capture.  schemaVersion is the
\* version of the cached TableSchema a DML event was built from; reload is the
\* tableStructuresToReload slice the post-apply closure reads.
DXLEventWrapper(kind, table, op, pos, version, reload, deleted, created) ==
    [kind |-> kind, table |-> table, op |-> op, pos |-> pos,
     schemaVersion |-> version, reload |-> reload,
     deleted |-> deleted, created |-> created]

IsAutoTransaction(e) == e.kind = "DDL"
HasPreApplyCallback(e) == e.kind = "DDL"
HasPostApplyCallback(e) == e.kind = "DDL"

\* handleRowsEvent: no DXL event for a table the schema cache does not know,
\* else one DML event per row operation the CopyFilter finds applicable.
RECURSIVE RowsToDML(_, _, _)
RowsToDML(ev, rows, version) ==
    IF rows = <<>> THEN [err |-> FALSE, events |-> <<>>]
    ELSE IF Head(rows) = "err" THEN [err |-> TRUE, events |-> <<>>]
    ELSE LET rest == RowsToDML(ev, Tail(rows), version)
             dml == DXLEventWrapper("DML", ev.table, "row", ev.pos, version,
                                    <<>>, NoTable, NoTable)
         IN IF Head(rows) = "no" THEN rest
            ELSE [err |-> rest.err, events |-> <<dml>> \o rest.events]

handleRowsEvent(ev, cache) ==
    IF cache[ev.table] = 0 THEN [err |-> FALSE, events |-> <<>>]
    ELSE RowsToDML(ev, ev.rows, cache[ev.table])

\* The table a descriptor marks for reload (handleQueryEvent, lines 254-276).
TableToReload(d) ==
    IF ~d.IsSchemaChange THEN NoTable
    ELSE IF d.DeletedTable = NoTable THEN d.AffectedTable
    ELSE d.CreatedTable

\* A loop over the descriptors that does not look at ApplySchemaChanges.
RECURSIVE QueryLoopAlwaysApplies(_, _, _)
QueryLoopAlwaysApplies(descs, apply, acc) ==
    IF descs = <<>> THEN acc
    ELSE LET d == Head(descs) IN
         IF d.applicable = "err" THEN [acc EXCEPT !.err = TRUE]
         ELSE IF d.applicable = "no"
         THEN QueryLoopAlwaysApplies(Tail(descs), apply, acc)
         ELSE QueryLoopAlwaysApplies(Tail(descs), apply,
                [acc EXCEPT !.emitted = Append(@, d),
                            !.reload = IF TableToReload(d) = NoTable THEN @
                                       ELSE Append(@, TableToReload(d))])

\* The loop of handleQueryEvent over the descriptors: acc is the result so far
\* (err, stop: the early return at line 240, the emitted descriptors and the
\* tableStructuresToReload slice).
RECURSIVE QueryLoop(_, _, _)
QueryLoop(descs, apply, acc) ==
    IF descs = <<>> THEN acc
    ELSE LET d == Head(descs) IN
         IF ~apply THEN [acc EXCEPT !.stop = TRUE]
         ELSE IF d.applicable = "err" THEN [acc EXCEPT !.err = TRUE]
         ELSE IF d.applicable = "no" THEN QueryLoop(Tail(descs), apply, acc)
         ELSE QueryLoop(Tail(descs), apply,
                [acc EXCEPT !.emitted = Append(@, d),
                            !.reload = IF TableToReload(d) = NoTable THEN @
                                       ELSE Append(@, TableToReload(d))])

\* The slice a post-apply closure sees when it runs.  The closures of one
\* query event share the variable tableStructuresToReload, so each sees the
\* slice as the loop left it.
CapturedReload(ownIndex, loop) == loop.reload

handleQueryEvent(ev, apply) ==
    IF ev.parseErr THEN [err |-> TRUE, events |-> <<>>]
    ELSE LET loop == QueryLoop(ev.descs, apply,
                        [err |-> FALSE, stop |-> FALSE, emitted |-> <<>>,
                         reload |-> <<>>])
         IN [err |-> loop.err,
             events |-> [i \in 1..Len(loop.emitted) |->
                 DXLEventWrapper("DDL", loop.emitted[i].AffectedTable,
                                 loop.emitted[i].op, ev.pos, 0,
                                 CapturedReload(i, loop),
                                 loop.emitted[i].DeletedTable,
                                 loop.emitted[i].CreatedTable)]]

handleReplicationEvent(ev, cache, apply) ==
    CASE ev.kind = "rows" -> handleRowsEvent(ev, cache)
      [] ev.kind = "query" -> handleQueryEvent(ev, apply)
      [] OTHER -> [err |-> TRUE, events |-> <<>>]


\* ------------------------------------------------------- the target database
\* The target's table versions after one DXL statement was executed: a DDL
\* statement that creates, alters or renames to a table gives it the version
\* pos + 1 (0: the table does not exist); DML leaves the schema alone.
ExecStatement(schema, e) ==
    IF e.kind # "DDL" THEN schema
    ELSE CASE e.op = "create" -> [schema EXCEPT ![e.table] = e.pos + 1]
           [] e.op = "alter" -> [schema EXCEPT ![e.table] = e.pos + 1]
           [] e.op = "drop" -> [schema EXCEPT ![e.deleted] = 0]
           [] e.op = "rename" -> [schema EXCEPT ![e.deleted] = 0,
                                                ![e.created] = e.pos + 1]
           [] OTHER -> schema

RECURSIVE ExecStatements(_, _)
ExecStatements(schema, events) ==
    IF events = <<>> THEN schema
    ELSE ExecStatements(ExecStatement(schema, Head(events)), Tail(events))

\* ------------------------------------------------------------ ErrorHandler
\* ErrorHandler.Fatal(component, err): recorded, and the writer terminates.
Fatal(component, err) ==
    /\ fatal' = Append(fatal, [component |-> component, err |-> err])
    /\ pc' = "fatal"

\* ---------------------------------------------------------------- WithRetries
\* A wrapper that never gives up.
RetriesExhaustedNever(try, maxRetries) == FALSE

\* WithRetries(maxRetries, 0, ...): whether the wrapper gives up after the
\* failed attempt number try.
RetriesExhausted(try, maxRetries) == try >= maxRetries

\* ------------------------------------------------------------- environment
\* BufferBinlogEvents: the streamer's send on the bounded queue (blocks while
\* the queue is full; a send on the closed queue panics).
BufferBinlogEvents(event) ==
    /\ ~panicked
    /\ produced < MaxEvents
    /\ produced' = produced + 1
    /\ sourceSchema' = SourceAfter(sourceSchema, event.descs)
    /\ IF bufferClosed
       THEN /\ panicked' = TRUE
            /\ UNCHANGED binlogEventBuffer
       ELSE /\ Len(binlogEventBuffer) < BatchSize
            /\ binlogEventBuffer' =
                   Append(binlogEventBuffer, [event EXCEPT !.pos = produced + 1])
            /\ UNCHANGED panicked
    /\ UNCHANGED <<relocVars, stateVars, histVars>>
    /\ UNCHANGED <<cfgVars, bufferClosed, eventChannel, channelClosed,
                   dataIteratorDone, doneSynced, runVars, dbVars, fatal,
                   doneCalls, donePending, stopPc, faults, batchVars>>

\* A DataIteratorDoneEvent whose every call goes on to send.
DataIteratorDoneEventAlwaysSends ==
    /\ ~panicked
    /\ doneCalls < MaxDoneCalls
    /\ doneCalls' = doneCalls + 1
    /\ dataIteratorDone' = dataIteratorDone + 1
    /\ donePending' = TRUE
    /\ UNCHANGED <<relocVars, stateVars, histVars>>
    /\ UNCHANGED <<cfgVars, binlogEventBuffer, bufferClosed, eventChannel,
                   channelClosed, doneSynced, runVars, dbVars, errVars,
                   sourceSchema, produced, stopPc, faults, batchVars>>

\* DataIteratorDoneEvent, first half: atomic.AddInt32(&b.dataIteratorDone, 1);
\* only the call that moves the counter to 1 goes on to send.
DataIteratorDoneEvent ==
    /\ ~panicked
    /\ doneCalls < MaxDoneCalls
    /\ doneCalls' = doneCalls + 1
    /\ dataIteratorDone' = dataIteratorDone + 1
    /\ donePending' = (donePending \/ ~(dataIteratorDone + 1 > 1))
    /\ UNCHANGED <<relocVars, stateVars, histVars>>
    /\ UNCHANGED <<cfgVars, binlogEventBuffer, bufferClosed, eventChannel,
                   channelClosed, doneSynced, runVars, dbVars, errVars,
                   sourceSchema, produced, stopPc, faults, batchVars>>

\* DataIteratorDoneEvent, second half: b.eventChannel <- dataIterationDone.
DataIteratorDoneSend ==
    /\ ~panicked
    /\ donePending
    /\ donePending' = FALSE
    /\ IF channelClosed
       THEN /\ panicked' = TRUE
            /\ UNCHANGED <<eventChannel, sent>>
       ELSE /\ Len(eventChannel) < 1
            /\ eventChannel' = Append(eventChannel, eventChannelDataIterationDone)
            /\ sent' = sent + 1
            /\ UNCHANGED panicked
    /\ UNCHANGED <<relocVars, stateVars, translated>>
    /\ UNCHANGED <<cfgVars, binlogEventBuffer, bufferClosed, channelClosed,
                   dataIteratorDone, doneSynced, runVars, dbVars, fatal,
                   sourceSchema, produced, doneCalls, stopPc, faults, batchVars>>

\* Stop: close(b.eventChannel), then close(b.binlogEventBuffer).
StopCloseEventChannel ==
    /\ ~panicked
    /\ stopPc = "idle"
    /\ stopPc' = "closing"
    /\ channelClosed' = TRUE
    /\ UNCHANGED <<relocVars, stateVars, histVars>>
    /\ UNCHANGED <<cfgVars, binlogEventBuffer, bufferClosed, eventChannel,
                   dataIteratorDone, doneSynced, runVars, dbVars, errVars,
                   sourceSchema, produced, doneCalls, donePending, faults,
                   batchVars>>

StopCloseBinlogEventBuffer ==
    /\ ~panicked
    /\ stopPc = "closing"
    /\ stopPc' = "done"
    /\ bufferClosed' = TRUE
    /\ UNCHANGED <<relocVars, stateVars, histVars>>
    /\ UNCHANGED <<cfgVars, binlogEventBuffer, eventChannel, channelClosed,
                   dataIteratorDone, doneSynced, runVars, dbVars, errVars,
                   sourceSchema, produced, doneCalls, donePending, faults,
                   batchVars>>


\* ------------------------------------------------------- BinlogWriter.Run
envRest == <<sourceSchema, produced, doneCalls, donePending, stopPc>>

\* The first entry of b at or after index i that has a callback (Len(b) + 1
\* if none): the callback loops of applyBatch do nothing for the others.
RECURSIVE NextPreApply(_, _)
NextPreApply(b, i) ==
    IF i > Len(b) THEN i
    ELSE IF HasPreApplyCallback(b[i]) THEN i
    ELSE NextPreApply(b, i + 1)

RECURSIVE NextPostApply(_, _)
NextPostApply(b, i) ==
    IF i > Len(b) THEN i
    ELSE IF HasPostApplyCallback(b[i]) THEN i
    ELSE NextPostApply(b, i + 1)

\* An applyBatch that goes to writeEvents without the pre-apply callbacks.
GoPreApplySkipsCallbacks(b, i) ==
    /\ idx' = Len(b) + 1
    /\ pc' = "write"
    /\ attempt' = 1

\* Lines 131-141 of applyBatch(b) from entry i on: the next pre-apply callback,
\* or the first attempt of writeEvents when no callback is left.
GoPreApply(b, i) ==
    LET j == NextPreApply(b, i) IN
    /\ idx' = j
    /\ IF j > Len(b) THEN pc' = "write" /\ attempt' = 1
       ELSE pc' = "pre" /\ attempt' = 0

\* The call applyBatch(b) at one of Run's call sites; r is where Run goes on
\* after it returns ("loop": line 82, "append": line 110, "emit": line 120).
StartApplyBatch(b, r) ==
    /\ applying' = b
    /\ ret' = r
    /\ GoPreApply(b, 1)

\* Where Run continues after applyBatch returned: the next DXL event of the
\* range at line 99, or the top of the loop when the range has ended.
ResumeRun(r, events) ==
    IF r = "emit" /\ events = <<>> THEN "loop" ELSE r

\* Lines 58-97: an event is received (blocking with an empty batch, by select
\* otherwise) and handed to handleReplicationEvent; an error is fatal.
RunReceive ==
    /\ ~panicked
    /\ pc = "loop"
    /\ binlogEventBuffer # <<>>
    /\ LET ev == Head(binlogEventBuffer)
           res == handleReplicationEvent(ev, TableSchema, ApplySchemaChanges)
       IN /\ binlogEventBuffer' = Tail(binlogEventBuffer)
          /\ replicationEvent' = ev
          /\ IF res.err
             THEN /\ Fatal("binlog_writer", "handleReplicationEvent")
                  /\ dxlEvents' = <<>>
                  /\ UNCHANGED translated
             ELSE /\ pc' = ResumeRun("emit", res.events)
                  /\ dxlEvents' = res.events
                  /\ translated' = translated \o res.events
                  /\ UNCHANGED fatal
    /\ UNCHANGED <<relocVars, stateVars, sent>>
    /\ UNCHANGED <<cfgVars, bufferClosed, eventChannel, channelClosed,
                   dataIteratorDone, doneSynced, batch, applying, ret, idx,
                   attempt, dbVars, panicked, envRest, faults, batchVars>>

\* Lines 59-66: the blocking read returns nil, the queue is closed.
RunQueueClosed ==
    /\ ~panicked
    /\ pc = "loop"
    /\ batch = <<>>
    /\ binlogEventBuffer = <<>>
    /\ bufferClosed
    /\ pc' = "done"
    /\ UNCHANGED <<relocVars, stateVars, histVars>>
    /\ UNCHANGED <<cfgVars, chanVars, batch, replicationEvent, dxlEvents,
                   applying, ret, idx, attempt, dbVars, errVars, envRest,
                   faults, batchVars>>

\* Lines 73-83: nothing to receive with a non-empty batch, the batch is applied.
RunCommitOnEmptyQueue ==
    /\ ~panicked
    /\ pc = "loop"
    /\ batch # <<>>
    /\ binlogEventBuffer = <<>>
    /\ StartApplyBatch(batch, "loop")
    /\ UNCHANGED <<relocVars, stateVars, histVars>>
    /\ UNCHANGED <<cfgVars, chanVars, batch, replicationEvent, dxlEvents,
                   dbVars, errVars, envRest, faults, batchVars>>

\* Lines 107-111: an auto-transaction event meets a non-empty batch.
RunForceCommit ==
    /\ ~panicked
    /\ pc = "emit"
    /\ Len(batch) > 0 /\ IsAutoTransaction(Head(dxlEvents))
    /\ StartApplyBatch(batch, "append")
    /\ UNCHANGED <<relocVars, stateVars, histVars>>
    /\ UNCHANGED <<cfgVars, chanVars, batch, replicationEvent, dxlEvents,
                   dbVars, errVars, envRest, faults, batchVars>>

\* A Run that applies the batch once it has grown past BatchSize.
RunAppendFlushesLate ==
    /\ ~panicked
    /\ \/ pc = "append"
       \/ /\ pc = "emit"
          /\ ~(Len(batch) > 0 /\ IsAutoTransaction(Head(dxlEvents)))
    /\ batch' = Append(batch, Head(dxlEvents))
    /\ dxlEvents' = Tail(dxlEvents)
    /\ IF Len(batch') > BatchSize
       THEN StartApplyBatch(batch', "emit")
       ELSE /\ pc' = ResumeRun("emit", dxlEvents')
            /\ UNCHANGED <<applying, ret, idx, attempt>>
    /\ UNCHANGED <<relocVars, stateVars, histVars>>
    /\ UNCHANGED <<cfgVars, chanVars, replicationEvent, dbVars, errVars,
                   envRest, faults, batchVars>>

\* Lines 116-121: the event is appended; a full batch is applied.
RunAppend ==
    /\ ~panicked
    /\ \/ pc = "append"
       \/ /\ pc = "emit"
          /\ ~(Len(batch) > 0 /\ IsAutoTransaction(Head(dxlEvents)))
    /\ batch' = Append(batch, Head(dxlEvents))
    /\ dxlEvents' = Tail(dxlEvents)
    /\ IF Len(batch') >= BatchSize
       THEN StartApplyBatch(batch', "emit")
       ELSE /\ pc' = ResumeRun("emit", dxlEvents')
            /\ UNCHANGED <<applying, ret, idx, attempt>>
    /\ UNCHANGED <<relocVars, stateVars, histVars>>
    /\ UNCHANGED <<cfgVars, chanVars, replicationEvent, dbVars, errVars,
                   envRest, faults, batchVars>>

\* ------------------------------------------------- BinlogWriter.applyBatch
\* A read of b.dataIteratorDone that may return 0 at any time, also after the
\* writer has received the sentinel.
ReadDataIteratorDoneNeverSynced == {0, dataIteratorDone}

\* The values the plain read of b.dataIteratorDone at line 354 can return.
\* The counter is written with atomic.AddInt32 by another goroutine and read
\* here without synchronisation: until the writer has received the sentinel
\* (which orders the read after the add) the read may still return 0.
ReadDataIteratorDone ==
    IF dataIteratorDone = 0 \/ doneSynced
    THEN {dataIteratorDone}
    ELSE {0, dataIteratorDone}

\* A barrier that takes the closed channel for the sentinel.
BarrierResultCloseResumes(ev) ==
    CASE ev = eventChannelDataIterationDone -> "resume"
      [] ev = "" -> "resume"
      [] OTHER -> "unexpected channel event"

\* waitUntilCopyPhaseCompleted's switch on the received value (a closed
\* channel delivers the empty string).
BarrierResult(ev) ==
    CASE ev = eventChannelDataIterationDone -> "resume"
      [] ev = "" -> shutdownEvent
      [] OTHER -> "unexpected channel event"

\* Lines 133, 295, 354: the pre-apply callback of a DDL event reads
\* dataIteratorDone; 0 sends it to the channel receive at line 356.
PreApplyCallback ==
    /\ ~panicked
    /\ pc = "pre"
    /\ \E seen \in ReadDataIteratorDone :
          IF seen = 0
          THEN pc' = "barrier" /\ UNCHANGED <<idx, attempt>>
          ELSE GoPreApply(applying, idx + 1)
    /\ UNCHANGED <<relocVars, stateVars, histVars>>
    /\ UNCHANGED <<cfgVars, chanVars, batch, replicationEvent, dxlEvents,
                   applying, ret, dbVars, errVars, envRest, faults,
                   batchVars>>

\* Lines 356-366 and 134-137: the receive on the control channel returns (a
\* value, or the empty string once the channel is closed and drained); any
\* error of the callback goes to ErrorHandler.Fatal.
BarrierReceive ==
    /\ ~panicked
    /\ pc = "barrier"
    /\ eventChannel # <<>> \/ channelClosed
    /\ LET ev == IF eventChannel # <<>> THEN Head(eventChannel) ELSE ""
           res == BarrierResult(ev)
       IN /\ eventChannel' = IF eventChannel # <<>> THEN Tail(eventChannel)
                             ELSE eventChannel
          /\ IF res = "resume"
             THEN /\ doneSynced' = TRUE
                  /\ GoPreApply(applying, idx + 1)
                  /\ UNCHANGED fatal
             ELSE /\ Fatal("binlog_writer", res)
                  /\ UNCHANGED <<doneSynced, idx, attempt>>
    /\ UNCHANGED <<relocVars, stateVars, histVars>>
    /\ UNCHANGED <<cfgVars, binlogEventBuffer, bufferClosed, channelClosed,
                   dataIteratorDone, batch, replicationEvent, dxlEvents,
                   applying, ret, dbVars, panicked, envRest, faults,
                   batchVars>>

\* Lines 148-157 of applyBatch from entry i on: the next post-apply callback,
\* or the return to Run, which starts a new batch (lines 81, 110, 120).
GoPostApply(i) ==
    LET j == NextPostApply(applying, i) IN
    /\ idx' = j
    /\ IF j > Len(applying)
       THEN pc' = ResumeRun(ret, dxlEvents) /\ batch' = <<>>
       ELSE pc' = "post" /\ UNCHANGED batch

\* ------------------------------------------------ BinlogWriter.writeEvents
\* Lines 141-146: what WithRetries does with a failed attempt.
AfterWriteError ==
    IF RetriesExhausted(attempt, WriteRetries)
    THEN Fatal("binlog_writer", "write events to target") /\ UNCHANGED attempt
    ELSE attempt' = attempt + 1 /\ UNCHANGED <<pc, fatal>>

\* A writeEvents that records the position before it knows the outcome.
WriteEventsFailedMovesPosition ==
    /\ ~panicked
    /\ pc = "write"
    /\ faults < MaxFaults
    /\ faults' = faults + 1
    /\ AfterWriteError
    /\ lastWrittenBinlogPosition' = Last(applying).pos
    /\ UNCHANGED <<relocVars, stateVars, histVars>>
    /\ UNCHANGED <<cfgVars, chanVars, batch, replicationEvent, dxlEvents,
                   applying, ret, idx, TableSchema, targetSchema, written,
                   persistedPosition, tableAction, panicked, envRest,
                   batchVars>>

\* A writeEvents whose checkpoint is stored outside the transaction and
\* survives the transaction's failure.
WriteEventsFailedStoresCheckpoint ==
    /\ ~panicked
    /\ pc = "write"
    /\ faults < MaxFaults
    /\ faults' = faults + 1
    /\ AfterWriteError
    /\ persistedPosition' =
           IF ForceResumeStateUpdatesToDB /\ StateTracker
           THEN Last(applying).pos ELSE persistedPosition
    /\ UNCHANGED <<relocVars, stateVars, histVars>>
    /\ UNCHANGED <<cfgVars, chanVars, batch, replicationEvent, dxlEvents,
                   applying, ret, idx, TableSchema, targetSchema, written,
                   lastWrittenBinlogPosition, tableAction, panicked, envRest,
                   batchVars>>

\* Lines 432-435 and 463-466: AsSQLString or b.DB.Exec fails; the
\* transaction is not applied and writeEvents returns the error.
WriteEventsFailed ==
    /\ ~panicked
    /\ pc = "write"
    /\ faults < MaxFaults
    /\ faults' = faults + 1
    /\ AfterWriteError
    /\ UNCHANGED <<relocVars, stateVars, histVars>>
    /\ UNCHANGED <<cfgVars, chanVars, batch, replicationEvent, dxlEvents,
                   applying, ret, idx, dbVars, panicked, envRest, batchVars>>

\* Lines 444-450: GetStoreBinlogWriterPositionSql fails; writeEvents returns
\* nil without executing anything, and applyBatch goes on to the post-apply
\* callbacks.
WriteEventsPositionSqlFailed ==
    /\ ~panicked
    /\ pc = "write"
    /\ ForceResumeStateUpdatesToDB /\ StateTracker
    /\ faults < MaxFaults
    /\ faults' = faults + 1
    /\ GoPostApply(1)
    /\ UNCHANGED <<relocVars, stateVars, histVars>>
    /\ UNCHANGED <<cfgVars, chanVars, replicationEvent, dxlEvents,
                   applying, ret, attempt, dbVars, errVars, envRest, batchVars>>

\* Lines 419-472: BEGIN; the statements; the checkpoint (the state writer's
\* SQL, when ForceResumeStateUpdatesToDB asks for it); COMMIT is executed, and
\* the in-memory position follows.
WriteEventsOk ==
    /\ ~panicked
    /\ pc = "write"
    /\ LET endEv == Last(applying)
           checkpoint == ForceResumeStateUpdatesToDB /\ StateTracker
       IN /\ written' = Append(written,
                 [events |-> applying,
                  checkpoint |-> IF checkpoint THEN endEv.pos ELSE 0])
          /\ targetSchema' = ExecStatements(targetSchema, applying)
          /\ persistedPosition' = IF checkpoint THEN endEv.pos
                                  ELSE persistedPosition
          /\ lastWrittenBinlogPosition' =
                 IF StateTracker THEN endEv.pos ELSE lastWrittenBinlogPosition
    /\ GoPostApply(1)
    /\ UNCHANGED <<relocVars, stateVars, histVars>>
    /\ UNCHANGED <<cfgVars, chanVars, replicationEvent, dxlEvents,
                   applying, ret, attempt, TableSchema, tableAction, errVars,
                   envRest, faults, batchVars>>

\* ------------------------------------------- the DDL post-apply callback
\* A reload that updates the entries the cache holds and adds none.
RECURSIVE ReloadTablesExistingOnly(_, _, _)
ReloadTablesExistingOnly(tables, target, st) ==
    IF tables = <<>> THEN st
    ELSE LET t == Head(tables) IN
         IF target[t] = 0 THEN [st EXCEPT !.err = TRUE]
         ELSE ReloadTablesExistingOnly(Tail(tables), target,
                [st EXCEPT !.cache[t] = IF @ = 0 THEN 0 ELSE target[t],
                           !.action[t] = "completed"])

\* reloadTableSchema and markTableAsCopied for each table of the captured
\* slice, in order, stopping at the first error.  schema.NewTableFromSqlDB
\* fails for a table the target does not have; otherwise the cache entry (new
\* or existing) takes the target's schema and the state tracker marks the
\* table completed.
RECURSIVE ReloadTables(_, _, _)
ReloadTables(tables, target, st) ==
    IF tables = <<>> THEN st
    ELSE LET t == Head(tables) IN
         IF target[t] = 0 THEN [st EXCEPT !.err = TRUE]
         ELSE ReloadTables(Tail(tables), target,
                [st EXCEPT !.cache[t] = target[t],
                           !.action[t] = "completed"])

\* A post-apply callback that also drops the cache entry of the table the
\* event deleted or renamed from.
PostApplyCallbackInvalidatesDeleted ==
    /\ ~panicked
    /\ pc = "post"
    /\ LET st == ReloadTables(applying[idx].reload, targetSchema,
                     [err |-> FALSE, cache |-> TableSchema,
                      action |-> tableAction])
           gone == applying[idx].deleted
       IN /\ TableSchema' = [t \in Tables |->
                                 IF t = gone THEN 0 ELSE st.cache[t]]
          /\ tableAction' = st.action
          /\ IF st.err
             THEN /\ Fatal("binlog_writer", "reloadTableSchema")
                  /\ UNCHANGED <<idx, batch>>
             ELSE GoPostApply(idx + 1) /\ UNCHANGED fatal
    /\ UNCHANGED <<relocVars, stateVars, histVars>>
    /\ UNCHANGED <<cfgVars, chanVars, replicationEvent, dxlEvents,
                   applying, ret, attempt, targetSchema, written,
                   persistedPosition, lastWrittenBinlogPosition, panicked,
                   envRest, faults, batchVars>>

\* Lines 150-154 and 301-326: the post-apply callback of a DDL event.
PostApplyCallback ==
    /\ ~panicked
    /\ pc = "post"
    /\ LET st == ReloadTables(applying[idx].reload, targetSchema,
                     [err |-> FALSE, cache |-> TableSchema,
                      action |-> tableAction])
       IN /\ TableSchema' = st.cache
          /\ tableAction' = st.action
          /\ IF st.err
             THEN /\ Fatal("binlog_writer", "reloadTableSchema")
                  /\ UNCHANGED <<idx, batch>>
             ELSE GoPostApply(idx + 1) /\ UNCHANGED fatal
    /\ UNCHANGED <<relocVars, stateVars, histVars>>
    /\ UNCHANGED <<cfgVars, chanVars, replicationEvent, dxlEvents,
                   applying, ret, attempt, targetSchema, written,
                   persistedPosition, lastWrittenBinlogPosition, panicked,
                   envRest, faults, batchVars>>

\* Lines 320-323 and 393-409: markTableAsCopied fails for the first table to
\* reload (the copy-done SQL cannot be generated or executed); the table's
\* schema has been reloaded, its action is not changed.
PostApplyMarkFailed ==
    /\ ~panicked
    /\ pc = "post"
    /\ applying[idx].reload # <<>>
    /\ targetSchema[Head(applying[idx].reload)] # 0
    /\ faults < MaxFaults
    /\ faults' = faults + 1
    /\ TableSchema' = [TableSchema EXCEPT ![Head(applying[idx].reload)] =
                           targetSchema[Head(applying[idx].reload)]]
    /\ Fatal("binlog_writer", "markTableAsCopied")
    /\ UNCHANGED <<relocVars, stateVars, histVars>>
    /\ UNCHANGED <<cfgVars, chanVars, batch, replicationEvent, dxlEvents,
                   applying, ret, idx, attempt, targetSchema, written,
                   persistedPosition, lastWrittenBinlogPosition, tableAction,
                   panicked, envRest, batchVars>>

\* ------------------------------------------------------------ BatchWriter
Writers == {"w1", "w2"}
SourceSchemaName == "db"
DatabaseRewrites == ("db" :> "db_target")
TableRewrites == ("t1" :> "t1_target")

\* Lines 40-48: a name the rewrite map holds is replaced by its target name.
Rewrite(map, name) == IF name \in DOMAIN map THEN map[name] ELSE name

\* batch.TableSchema().String(): the source's qualified table name.
QualifiedName(schema, table) == [schema |-> schema, table |-> table]

\* The row batches the data iterator hands out, each once: insert batches on
\* distinct pagination-key ranges (rows holds the rows' pagination keys;
\* hasKey is ValuesContainPaginationKey), one with no values, and an init batch.
InsertRowBatch(table, rows, hasKey) ==
    [type |-> "InsertRowBatch", table |-> table, rows |-> rows, hasKey |-> hasKey]
InitRowBatch(table) ==
    [type |-> "InitRowBatch", table |-> table, rows |-> <<>>, hasKey |-> FALSE]
RowBatches ==
    <<InsertRowBatch("t1", <<1, 2>>, TRUE),
      InsertRowBatch("t1", <<3, 4>>, TRUE),
      InsertRowBatch("t2", <<5, 6>>, FALSE),
      InsertRowBatch("t1", <<>>, TRUE),
      InitRowBatch("t2")>>

NoError ==
    [type |-> "nil", step |-> "", keys |-> {}, table |-> QualifiedName("", "")]
PlainError(step) ==
    [type |-> "error", step |-> step, keys |-> {},
     table |-> QualifiedName("", "")]
\* Lines 10-17 and 115.
BatchWriterVerificationFailed(mismatches, table) ==
    [type |-> "BatchWriterVerificationFailed", step |-> "CheckFingerprintInline",
     keys |-> mismatches, table |-> table]
RetryLimitExceeded(err) == [err EXCEPT !.type = "retry limit exceeded"]

IdleWriter ==
    [pc |-> "idle", batch |-> 0, attempt |-> 0, tx |-> "none",
     mismatches |-> {}, result |-> NoError]

NoBatch == [type |-> "none", table |-> NoTable, rows |-> <<>>, hasKey |-> FALSE]
BatchOf(w) == IF bw[w].batch = 0 THEN NoBatch ELSE RowBatches[bw[w].batch]
\* The rows of a batch as the target stores them (under the rewritten names).
TargetRows(b) ==
    {[table |-> QualifiedName(Rewrite(DatabaseRewrites, SourceSchemaName),
                              Rewrite(TableRewrites, b.table)),
      key |-> b.rows[i]] : i \in 1..Len(b.rows)}

\* A state tracker that stores whatever key it is handed.
UpdateLastSuccessfulPaginationKeyAssign(keys, table, key) ==
    [keys EXCEPT ![table] = key]

\* StateTracker.UpdateLastSuccessfulPaginationKey: per-table monotonic max.
UpdateLastSuccessfulPaginationKey(keys, table, key) ==
    [keys EXCEPT ![table] = Max(@, key)]

\* An end key taken from the first row of the batch.
EndPaginationKeyposFirstRow(b) == IF b.hasKey THEN b.rows[1] ELSE 0

\* Lines 70-83: the key handed to the state tracker, 0 when the values do not
\* contain the pagination key.
EndPaginationKeypos(b) == IF b.hasKey THEN Last(b.rows) ELSE 0

\* What WithRetries does with the error of a failed attempt: a verification
\* failure is returned as it is, another error is retried until the attempts
\* are used up.
WithRetriesReturns(err, try, maxRetries) ==
    \/ err.type = "BatchWriterVerificationFailed"
    \/ RetriesExhausted(try, maxRetries)

bwRest == <<cfgVars, chanVars, runVars, dbVars, errVars, envVars, histVars,
            relocVars, stateVars>>

\* WriteRowBatch(batch) is called by writer w with a batch not handed out yet.
WriteRowBatch(w, b) ==
    /\ bw[w].pc = "idle"
    /\ b \notin taken
    /\ taken' = taken \cup {b}
    /\ bw' = [bw EXCEPT ![w] = [IdleWriter EXCEPT !.pc = "start", !.batch = b,
                                                   !.attempt = 1]]
    /\ UNCHANGED <<bwRest, committed, lastSuccessfulPaginationKeys>>

\* Lines 65-68: an insert batch without values returns nil at once.
AttemptEmptyValues(w) ==
    /\ bw[w].pc = "start"
    /\ BatchOf(w).type = "InsertRowBatch" /\ BatchOf(w).rows = <<>>
    /\ bw' = [bw EXCEPT ![w].pc = "returned", ![w].result = NoError]
    /\ UNCHANGED <<bwRest, committed, lastSuccessfulPaginationKeys, taken>>

\* Whether the attempt gets past line 68.
HasWork(b) == b.type = "InitRowBatch" \/ b.rows # <<>>

\* Lines 74-98 and 135-148: GetUint64, AsSQLQuery, StmtFor or Begin fails;
\* no transaction was begun.
AttemptFailsBeforeBegin(w, step) ==
    /\ bw[w].pc = "start"
    /\ HasWork(BatchOf(w))
    /\ step = "GetUint64" =>
           BatchOf(w).type = "InsertRowBatch" /\ BatchOf(w).hasKey
    /\ bw' = [bw EXCEPT ![w].pc = "failed", ![w].result = PlainError(step)]
    /\ UNCHANGED <<bwRest, committed, lastSuccessfulPaginationKeys, taken>>

\* Lines 95 and 145: w.DB.Begin() succeeds.
AttemptBegin(w) ==
    /\ bw[w].pc = "start"
    /\ HasWork(BatchOf(w))
    /\ bw' = [bw EXCEPT ![w].pc = "begun", ![w].tx = "open"]
    /\ UNCHANGED <<bwRest, committed, lastSuccessfulPaginationKeys, taken>>

\* Lines 100-104 and 150-154: Exec fails, the transaction is rolled back.
AttemptExecFailed(w) ==
    /\ bw[w].pc = "begun"
    /\ bw' = [bw EXCEPT ![w].pc = "failed", ![w].tx = "rolledback",
                        ![w].result = PlainError("Exec")]
    /\ UNCHANGED <<bwRest, committed, lastSuccessfulPaginationKeys, taken>>

\* Lines 100 and 150: Exec succeeds inside the transaction.
AttemptExec(w) ==
    /\ bw[w].pc = "begun"
    /\ bw' = [bw EXCEPT ![w].pc = "executed"]
    /\ UNCHANGED <<bwRest, committed, lastSuccessfulPaginationKeys, taken>>

\* Lines 106-111: CheckFingerprintInline returns an error.
AttemptVerifyError(w) ==
    /\ bw[w].pc = "executed"
    /\ BatchOf(w).type = "InsertRowBatch" /\ InlineVerifier
    /\ bw' = [bw EXCEPT ![w].pc = "failed", ![w].tx = "rolledback",
                        ![w].result = PlainError("CheckFingerprintInline")]
    /\ UNCHANGED <<bwRest, committed, lastSuccessfulPaginationKeys, taken>>

\* The table name under which the target stores the batch.
VerificationFailedTableRewritten(b) ==
    QualifiedName(Rewrite(DatabaseRewrites, SourceSchemaName),
                  Rewrite(TableRewrites, b.table))

\* Line 115: batch.TableSchema().String(), the source's qualified table name.
VerificationFailedTable(b) == QualifiedName(SourceSchemaName, b.table)

\* A verification failure reported as an untyped error.
AttemptVerifyMismatchPlainError(w, mismatches) ==
    /\ bw[w].pc = "executed"
    /\ BatchOf(w).type = "InsertRowBatch" /\ InlineVerifier
    /\ mismatches # {}
    /\ bw' = [bw EXCEPT ![w].pc = "failed", ![w].tx = "rolledback",
                        ![w].mismatches = mismatches,
                        ![w].result = PlainError("CheckFingerprintInline")]
    /\ UNCHANGED <<bwRest, committed, lastSuccessfulPaginationKeys, taken>>

\* Lines 113-116: CheckFingerprintInline returns mismatched pagination keys.
AttemptVerifyMismatch(w, mismatches) ==
    /\ bw[w].pc = "executed"
    /\ BatchOf(w).type = "InsertRowBatch" /\ InlineVerifier
    /\ mismatches # {}
    /\ bw' = [bw EXCEPT ![w].pc = "failed", ![w].tx = "rolledback",
                        ![w].mismatches = mismatches,
                        ![w].result = BatchWriterVerificationFailed(mismatches,
                            VerificationFailedTable(BatchOf(w)))]
    /\ UNCHANGED <<bwRest, committed, lastSuccessfulPaginationKeys, taken>>

\* A failed Commit that leaves the transaction as it is.
AttemptCommitFailedNoRollback(w) ==
    /\ bw[w].pc = "executed"
    /\ bw' = [bw EXCEPT ![w].pc = "failed", ![w].result = PlainError("Commit")]
    /\ UNCHANGED <<bwRest, committed, lastSuccessfulPaginationKeys, taken>>

\* Lines 119-123 and 156-160: Commit fails (after a verification without
\* mismatches, if a verifier is attached); Rollback is called.
AttemptCommitFailed(w) ==
    /\ bw[w].pc = "executed"
    /\ bw' = [bw EXCEPT ![w].pc = "failed", ![w].tx = "rolledback",
                        ![w].result = PlainError("Commit")]
    /\ UNCHANGED <<bwRest, committed, lastSuccessfulPaginationKeys, taken>>

\* Lines 119 and 156: Commit succeeds, the rows are in the target; an init
\* batch returns nil here (line 162).
AttemptCommit(w) ==
    /\ bw[w].pc = "executed"
    /\ committed' = committed \cup TargetRows(BatchOf(w))
    /\ bw' = [bw EXCEPT ![w].tx = "committed",
                        ![w].pc = IF BatchOf(w).type = "InitRowBatch"
                                  THEN "returned" ELSE "committed",
                        ![w].result = NoError]
    /\ UNCHANGED <<bwRest, lastSuccessfulPaginationKeys, taken>>

\* Lines 127-131: the state tracker, if attached, is told the end key under
\* the source table's name; the attempt returns nil.
AttemptUpdateState(w) ==
    /\ bw[w].pc = "committed"
    /\ lastSuccessfulPaginationKeys' =
           IF StateTracker
           THEN UpdateLastSuccessfulPaginationKey(lastSuccessfulPaginationKeys,
                    BatchOf(w).table, EndPaginationKeypos(BatchOf(w)))
           ELSE lastSuccessfulPaginationKeys
    /\ bw' = [bw EXCEPT ![w].pc = "returned"]
    /\ UNCHANGED <<bwRest, committed, taken>>

\* WithRetries starts the next attempt after a failed one.
RetryAttempt(w) ==
    /\ bw[w].pc = "failed"
    /\ ~WithRetriesReturns(bw[w].result, bw[w].attempt, WriteRetries)
    /\ bw' = [bw EXCEPT ![w].pc = "start", ![w].attempt = @ + 1,
                        ![w].tx = "none", ![w].result = NoError]
    /\ UNCHANGED <<bwRest, committed, lastSuccessfulPaginationKeys, taken>>

\* WithRetries returns the error: the typed verification failure unchanged,
\* any other one as a retry-limit error.
ReturnError(w) ==
    /\ bw[w].pc = "failed"
    /\ WithRetriesReturns(bw[w].result, bw[w].attempt, WriteRetries)
    /\ bw' = [bw EXCEPT ![w].pc = "returned",
                        ![w].result =
                            IF @.type = "BatchWriterVerificationFailed" THEN @
                            ELSE RetryLimitExceeded(@)]
    /\ UNCHANGED <<bwRest, committed, lastSuccessfulPaginationKeys, taken>>

\* The caller has the result; the writer is free for the next batch.
WriteRowBatchDone(w) ==
    /\ bw[w].pc = "returned"
    /\ bw' = [bw EXCEPT ![w] = IdleWriter]
    /\ UNCHANGED <<bwRest, committed, lastSuccessfulPaginationKeys, taken>>

\* ------------------------------------------------------------ RelocFerry
\* The cutover steps of RelocFerry.Run in the order of its code.
CutoverSteps ==
    <<"WaitUntilRowCopyIsComplete", "WaitUntilBinlogStreamerCatchesUp",
      "CutoverLock", "FlushBinlogAndStopStreaming", "copyWG.Wait",
      "deltaCopyJoinedTables", "CutoverUnlock">>

relocRest == <<cfgVars, chanVars, runVars, dbVars, panicked, envVars,
               batchVars, histVars, stateVars>>

\* Whether the process is alive: ErrorHandler.Fatal terminates it.
RelocAlive == relocPc # "fatal"

\* ErrorHandler.Fatal("reloc", err) at lines 105, 116 and 124.
RelocFatal(step) ==
    /\ fatal' = Append(fatal, [component |-> "reloc", err |-> step])
    /\ relocLog' = Append(relocLog, "failed")
    /\ relocPc' = "fatal"

\* Ferry.Run (line 87), the data iterator: a table's rows are copied.
FerryCopiesTable(t) ==
    /\ RelocAlive /\ ferryRunning
    /\ t \in tablesToCopy
    /\ tablesToCopy' = tablesToCopy \ {t}
    /\ UNCHANGED <<relocRest, fatal, relocPc, streamerLag, streaming,
                   ferryRunning, sourceLock, relocLog, JoinedTables,
                   deltaCopied>>

\* The application writes to the source while the source is not locked.
SourceWrite ==
    /\ RelocAlive
    /\ sourceLock # "locked"
    /\ streaming # "stopped"
    /\ streamerLag < MaxLag
    /\ streamerLag' = streamerLag + 1
    /\ UNCHANGED <<relocRest, fatal, relocPc, tablesToCopy, streaming,
                   ferryRunning, sourceLock, relocLog, JoinedTables,
                   deltaCopied>>

\* Ferry.Run (line 87), the binlog streamer: one event is replicated.
FerryStreamerApplies ==
    /\ RelocAlive
    /\ streaming # "stopped"
    /\ streamerLag > 0
    /\ streamerLag' = streamerLag - 1
    /\ UNCHANGED <<relocRest, fatal, relocPc, tablesToCopy, streaming,
                   ferryRunning, sourceLock, relocLog, JoinedTables,
                   deltaCopied>>

\* Ferry.Run (line 87), the binlog streamer told to stop: it stops once it
\* has flushed what the source holds.
FerryStreamerStops ==
    /\ RelocAlive
    /\ streaming = "stopping"
    /\ streamerLag = 0
    /\ streaming' = "stopped"
    /\ UNCHANGED <<relocRest, fatal, relocPc, tablesToCopy, streamerLag,
                   ferryRunning, sourceLock, relocLog, JoinedTables,
                   deltaCopied>>

\* Lines 85-88: r.Ferry.Run() returns and the goroutine calls copyWG.Done().
FerryRunReturns ==
    /\ RelocAlive /\ ferryRunning
    /\ tablesToCopy = {}
    /\ streaming = "stopped"
    /\ ferryRunning' = FALSE
    /\ UNCHANGED <<relocRest, fatal, relocPc, tablesToCopy, streamerLag,
                   streaming, sourceLock, relocLog, JoinedTables, deltaCopied>>

\* Line 90: r.Ferry.WaitUntilRowCopyIsComplete() returns.
RelocWaitUntilRowCopyIsComplete ==
    /\ relocPc = "WaitUntilRowCopyIsComplete"
    /\ tablesToCopy = {}
    /\ relocPc' = "WaitUntilBinlogStreamerCatchesUp"
    /\ relocLog' = Append(relocLog, "WaitUntilRowCopyIsComplete")
    /\ UNCHANGED <<relocRest, fatal, tablesToCopy, streamerLag, streaming,
                   ferryRunning, sourceLock, JoinedTables, deltaCopied>>

\* Line 92: r.Ferry.WaitUntilBinlogStreamerCatchesUp() returns.
RelocWaitUntilBinlogStreamerCatchesUp ==
    /\ relocPc = "WaitUntilBinlogStreamerCatchesUp"
    /\ streamerLag = 0
    /\ relocPc' = "CutoverLock"
    /\ relocLog' = Append(relocLog, "WaitUntilBinlogStreamerCatchesUp")
    /\ UNCHANGED <<relocRest, fatal, tablesToCopy, streamerLag, streaming,
                   ferryRunning, sourceLock, JoinedTables, deltaCopied>>

\* Lines 100-102: the lock POST succeeds; the source takes no more writes.
RelocCutoverLock ==
    /\ relocPc = "CutoverLock"
    /\ sourceLock' = "locked"
    /\ relocPc' = "FlushBinlogAndStopStreaming"
    /\ relocLog' = Append(relocLog, "CutoverLock")
    /\ UNCHANGED <<relocRest, fatal, tablesToCopy, streamerLag, streaming,
                   ferryRunning, JoinedTables, deltaCopied>>

\* A failed lock POST that is reported and then run over.
RelocCutoverLockFailedGoesOn ==
    /\ relocPc = "CutoverLock"
    /\ fatal' = Append(fatal, [component |-> "reloc", err |-> "CutoverLock"])
    /\ relocLog' = Append(relocLog, "failed")
    /\ relocPc' = "FlushBinlogAndStopStreaming"
    /\ UNCHANGED <<relocRest, tablesToCopy, streamerLag, streaming,
                   ferryRunning, sourceLock, JoinedTables, deltaCopied>>

\* Lines 100-106: the lock POST fails (network error or non-2xx answer).
RelocCutoverLockFailed ==
    /\ relocPc = "CutoverLock"
    /\ RelocFatal("CutoverLock")
    /\ UNCHANGED <<relocRest, tablesToCopy, streamerLag, streaming,
                   ferryRunning, sourceLock, JoinedTables, deltaCopied>>

\* Line 108: r.Ferry.FlushBinlogAndStopStreaming() tells the streamer to stop.
RelocFlushBinlogAndStopStreaming ==
    /\ relocPc = "FlushBinlogAndStopStreaming"
    /\ streaming' = "stopping"
    /\ relocPc' = "copyWG.Wait"
    /\ relocLog' = Append(relocLog, "FlushBinlogAndStopStreaming")
    /\ UNCHANGED <<relocRest, fatal, tablesToCopy, streamerLag, ferryRunning,
                   sourceLock, JoinedTables, deltaCopied>>

\* A coordinator that goes on without waiting for Ferry.Run.
RelocCopyWGNoWait ==
    /\ relocPc = "copyWG.Wait"
    /\ relocPc' = "deltaCopyJoinedTables"
    /\ relocLog' = Append(relocLog, "copyWG.Wait")
    /\ UNCHANGED <<relocRest, fatal, tablesToCopy, streamerLag, streaming,
                   ferryRunning, sourceLock, JoinedTables, deltaCopied>>

\* Line 109: copyWG.Wait() returns once Ferry.Run has returned.
RelocCopyWGWait ==
    /\ relocPc = "copyWG.Wait"
    /\ ~ferryRunning
    /\ relocPc' = "deltaCopyJoinedTables"
    /\ relocLog' = Append(relocLog, "copyWG.Wait")
    /\ UNCHANGED <<relocRest, fatal, tablesToCopy, streamerLag, streaming,
                   ferryRunning, sourceLock, JoinedTables, deltaCopied>>

\* Lines 131-137: the tables of the Ferry that are joined tables.
DeltaCopyTables(tables, joined) == {t \in tables : t \in joined}

\* Lines 111-113 and 130-140: the joined tables are copied again.
RelocDeltaCopyJoinedTables ==
    /\ relocPc = "deltaCopyJoinedTables"
    /\ deltaCopied' = DeltaCopyTables(Tables, JoinedTables)
    /\ relocPc' = "CutoverUnlock"
    /\ relocLog' = Append(relocLog, "deltaCopyJoinedTables")
    /\ UNCHANGED <<relocRest, fatal, tablesToCopy, streamerLag, streaming,
                   ferryRunning, sourceLock, JoinedTables>>

\* Lines 111-117: IterateAndCopyTables returns an error.
RelocDeltaCopyFailed ==
    /\ relocPc = "deltaCopyJoinedTables"
    /\ RelocFatal("deltaCopyJoinedTables")
    /\ UNCHANGED <<relocRest, tablesToCopy, streamerLag, streaming,
                   ferryRunning, sourceLock, JoinedTables, deltaCopied>>

\* Lines 119-121 and 127: the unlock POST succeeds and Run returns.
RelocCutoverUnlock ==
    /\ relocPc = "CutoverUnlock"
    /\ sourceLock' = "released"
    /\ relocPc' = "done"
    /\ relocLog' = Append(relocLog, "CutoverUnlock")
    /\ UNCHANGED <<relocRest, fatal, tablesToCopy, streamerLag, streaming,
                   ferryRunning, JoinedTables, deltaCopied>>

\* Lines 119-125: the unlock POST fails.
RelocCutoverUnlockFailed ==
    /\ relocPc = "CutoverUnlock"
    /\ RelocFatal("CutoverUnlock")
    /\ UNCHANGED <<relocRest, tablesToCopy, streamerLag, streaming,
                   ferryRunning, sourceLock, JoinedTables, deltaCopied>>

\* ---------------------------------------------------------- binlog positions
\* A binlog position: the file name (here the digits of its number, the
\* empty name being the empty sequence) and the offset in the file.
BinlogFileNames == {<<2>>, <<3>>, <<1, 0>>}
BinlogOffsets == {0, 4, 10}
Position(name, pos) == [Name |-> name, Pos |-> pos]
NilPosition == Position(<<>>, 0)
BinlogPositions ==
    {NilPosition} \cup {Position(n, p) : n \in BinlogFileNames, p \in BinlogOffsets}

\* Comparison of file names, character by character: -1, 0 or 1.
RECURSIVE CompareNames(_, _)
CompareNames(a, b) ==
    IF a = <<>> /\ b = <<>> THEN 0
    ELSE IF a = <<>> THEN -1
    ELSE IF b = <<>> THEN 1
    ELSE IF Head(a) < Head(b) THEN -1
    ELSE IF Head(a) > Head(b) THEN 1
    ELSE CompareNames(Tail(a), Tail(b))

\* Position.Compare: the file name first, then the offset.
ComparePositions(a, b) ==
    LET c == CompareNames(a.Name, b.Name) IN
    IF c # 0 THEN c
    ELSE IF a.Pos < b.Pos THEN -1
    ELSE IF a.Pos > b.Pos THEN 1
    ELSE 0

SerializableState(w, v) ==
    [LastWrittenBinlogPosition |-> w,
     LastStoredBinlogPositionForInlineVerifier |-> v]

\* A minimum that lets an empty position win the comparison.
MinBinlogPositionPlain(s) ==
    IF ComparePositions(s.LastWrittenBinlogPosition,
                        s.LastStoredBinlogPositionForInlineVerifier) <= 0
    THEN s.LastWrittenBinlogPosition
    ELSE s.LastStoredBinlogPositionForInlineVerifier

\* SerializableState.MinBinlogPosition: a position with an empty file name
\* is absent, otherwise the smaller of the two.
MinBinlogPosition(s) ==
    IF s.LastWrittenBinlogPosition.Name = <<>>
    THEN s.LastStoredBinlogPositionForInlineVerifier
    ELSE IF s.LastStoredBinlogPositionForInlineVerifier.Name = <<>>
    THEN s.LastWrittenBinlogPosition
    ELSE IF ComparePositions(s.LastWrittenBinlogPosition,
                             s.LastStoredBinlogPositionForInlineVerifier) <= 0
    THEN s.LastWrittenBinlogPosition
    ELSE s.LastStoredBinlogPositionForInlineVerifier

stateRest == <<cfgVars, chanVars, runVars, errVars, envVars, histVars,
               relocVars, bw, committed, taken>>

\* serializedState.MinBinlogPosition() is called on the state.
CallMinBinlogPosition ==
    /\ ~minPosition.done
    /\ minPosition' = [done |-> TRUE, pos |-> MinBinlogPosition(serializableState)]
    /\ UNCHANGED <<stateRest, dbVars, lastSuccessfulPaginationKeys,
                   stateTables, masterPos, loaded, serialized,
                   serializableState>>

\* ------------------------------------------- state tables on the target
\* A row of the row-copy-state table; the payload is valid JSON or not.
StateRow(table, payload) ==
    [table_name |-> table, last_pagination_key |-> payload]
StateRowsToInsert ==
    {StateRow(t, p) : t \in Tables, p \in {"json", "not json"}}

\* The binlog-writer state row: position_name and position_offset.
StorePosition(pos) == <<pos.Name, pos.Pos>>
LoadPosition(cols) == Position(cols[1], cols[2])

NoStateTables ==
    [created |-> FALSE, rows |-> <<>>, position |-> StorePosition(NilPosition),
     copy_complete |-> {}]

\* A load that parses a row's payload before it looks the table up.
RECURSIVE LoadRowCopyStateParsesFirst(_, _)
LoadRowCopyStateParsesFirst(rows, cache) ==
    IF rows = <<>> THEN FALSE
    ELSE IF Head(rows).last_pagination_key # "json" THEN TRUE
    ELSE LoadRowCopyStateParsesFirst(Tail(rows), cache)

\* The loop over the rows of the row-copy-state table: a row of a table the
\* schema cache does not hold is skipped, the payload of any other row is
\* parsed, and the first parse error ends the load (TRUE: an error).
RECURSIVE LoadRowCopyState(_, _)
LoadRowCopyState(rows, cache) ==
    IF rows = <<>> THEN FALSE
    ELSE IF cache[Head(rows).table_name] = 0
    THEN LoadRowCopyState(Tail(rows), cache)
    ELSE IF Head(rows).last_pagination_key # "json" THEN TRUE
    ELSE LoadRowCopyState(Tail(rows), cache)

\* A load that takes the position from the source's master status.
ReadBinlogWriterPositionFromSource(tables, master) == master

\* The loaded LastWrittenBinlogPosition: read from the state table.
ReadBinlogWriterPosition(tables, master) == LoadPosition(tables.position)

\* NewStateTrackerFromTargetDB: creates the state tables if they are absent
\* (the binlog-writer state row then holds the source's master position),
\* reads the position and the rows, and returns the tracker and the state, or
\* an error.
NewStateTrackerFromTargetDB ==
    /\ Len(loaded) < MaxLoads
    /\ LET tables == IF stateTables.created THEN stateTables
                     ELSE [NoStateTables EXCEPT !.created = TRUE,
                               !.position = StorePosition(masterPos)]
           err == LoadRowCopyState(tables.rows, TableSchema)
           pos == IF err THEN NilPosition
                  ELSE ReadBinlogWriterPosition(tables, masterPos)
       IN /\ stateTables' = tables
          /\ loaded' = Append(loaded,
                 [err |-> err, rows |-> tables.rows, tracker |-> ~err,
                  LastWrittenBinlogPosition |-> pos,
                  trackerPosition |-> pos])
          /\ serialized' = Append(serialized,
                 [done |-> FALSE, LastWrittenBinlogPosition |-> NilPosition])
    /\ UNCHANGED <<stateRest, dbVars, lastSuccessfulPaginationKeys,
                   masterPos, serializableState, minPosition>>

\* stateTracker.Serialize(nil, nil) on the tracker of load i.
Serialize(i) ==
    /\ i \in 1..Len(loaded)
    /\ loaded[i].tracker
    /\ ~serialized[i].done
    /\ serialized' = [serialized EXCEPT ![i] =
           [done |-> TRUE,
            LastWrittenBinlogPosition |-> loaded[i].trackerPosition]]
    /\ UNCHANGED <<stateRest, dbVars, lastSuccessfulPaginationKeys,
                   stateTables, masterPos, loaded, serializableState,
                   minPosition>>

\* SeedSourceDB: writes on the source move its master position on.
SeedSourceDB ==
    /\ masterPos.Name = <<2>>
    /\ masterPos' = IF masterPos.Pos < 10 THEN Position(<<2>>, 10)
                    ELSE Position(<<3>>, 4)
    /\ UNCHANGED <<stateRest, dbVars, lastSuccessfulPaginationKeys,
                   stateTables, loaded, serialized, serializableState,
                   minPosition>>

\* The INSERT INTO _row_copy_state of the tests.
InsertStateRow(row) ==
    /\ stateTables.created
    /\ Len(stateTables.rows) < MaxStateRows
    /\ stateTables' = [stateTables EXCEPT !.rows = Append(@, row)]
    /\ UNCHANGED <<stateRest, dbVars, lastSuccessfulPaginationKeys,
                   masterPos, loaded, serialized, serializableState,
                   minPosition>>

\* -------------------------------------------------- the tracker's tables
TableActionWaiting == "waiting"
TableActionCopying == "copying"
TableActionCompleted == "completed"

PaginationKeys == {1, 2}

trackerRest == <<cfgVars, chanVars, runVars, errVars, sourceSchema, produced,
                 doneCalls, donePending, stopPc, histVars, relocVars, bw,
                 committed, taken, TableSchema, targetSchema, written,
                 persistedPosition, lastWrittenBinlogPosition, masterPos,
                 loaded, serialized, serializableState, minPosition>>

\* A tracker that takes every recorded key for a sign of copying.
TableActionAfterProgressRestarts(action) == TableActionCopying

\* The action of a table a pagination key was recorded for: a waiting table
\* is being copied, a completed one stays completed.
TableActionAfterProgress(action) ==
    IF action = TableActionWaiting THEN TableActionCopying ELSE action

\* BatchWriter's call at batch_writer.go line 128 as the tracker sees it.
TrackerUpdateLastSuccessfulPaginationKey(t, key) ==
    /\ tableAction[t] # "none"
    /\ lastSuccessfulPaginationKeys' =
           UpdateLastSuccessfulPaginationKey(lastSuccessfulPaginationKeys, t, key)
    /\ tableAction' = [tableAction EXCEPT ![t] = TableActionAfterProgress(@)]
    /\ UNCHANGED <<trackerRest, stateTables, faults>>

\* StateTracker.MarkTableAsCompleted(table), called when the bulk copy of
\* the table has finished.
TrackerMarkTableAsCompleted(t) ==
    /\ tableAction[t] \in {TableActionWaiting, TableActionCopying}
    /\ tableAction' = [tableAction EXCEPT ![t] = TableActionCompleted]
    /\ UNCHANGED <<trackerRest, stateTables, faults,
                   lastSuccessfulPaginationKeys>>

\* BinlogWriter.markTableAsCopied(table): the copy-done SQL (none when the
\* state writer opts out) is executed on the target, then the tracker marks
\* the table completed; an error of either step is returned before that.
markTableAsCopied(t, outcome) ==
    /\ outcome \in {"ok", "GetStoreRowCopyDoneSql", "Exec"}
    /\ outcome # "ok" => faults < MaxFaults
    /\ outcome = "Exec" => stateTables.created
    /\ faults' = IF outcome = "ok" THEN faults ELSE faults + 1
    /\ stateTables' =
           IF outcome = "ok" /\ stateTables.created
           THEN [stateTables EXCEPT !.copy_complete = @ \cup {t}]
           ELSE stateTables
    /\ tableAction' =
           IF outcome = "ok"
           THEN [tableAction EXCEPT ![t] = TableActionCompleted]
           ELSE tableAction
    /\ UNCHANGED <<trackerRest, lastSuccessfulPaginationKeys>>

\* --------------------------------------------------------- specification
InitConfig ==
    /\ BatchSize \in 1..MaxBatchSize
    /\ WriteRetries \in 1..MaxWriteRetries
    /\ ApplySchemaChanges \in BOOLEAN
    /\ ForceResumeStateUpdatesToDB \in BOOLEAN

\* The state after Run has made its channels (lines 45-52) with the schema
\* cache loaded: the source and the target have table t1, not t2.
InitBinlogWriter ==
    /\ binlogEventBuffer = <<>> /\ bufferClosed = FALSE
    /\ eventChannel = <<>> /\ channelClosed = FALSE
    /\ dataIteratorDone = 0 /\ doneSynced = FALSE
    /\ pc = "loop" /\ batch = <<>> /\ replicationEvent = NoEvent
    /\ dxlEvents = <<>> /\ applying = <<>> /\ ret = "loop"
    /\ idx = 1 /\ attempt = 0
    /\ TableSchema = [t \in Tables |-> IF t = "t1" THEN 1 ELSE 0]
    /\ targetSchema = [t \in Tables |-> IF t = "t1" THEN 1 ELSE 0]
    /\ written = <<>> /\ persistedPosition = 0
    /\ lastWrittenBinlogPosition = 0
    /\ tableAction = [t \in Tables |-> IF t = "t1" THEN "waiting" ELSE "none"]
    /\ fatal = <<>> /\ panicked = FALSE
    /\ sourceSchema = {"t1"} /\ produced = 0
    /\ doneCalls = 0 /\ donePending = FALSE /\ stopPc = "idle" /\ faults = 0
    /\ translated = <<>> /\ sent = 0

InitBatchWriter ==
    /\ bw = [w \in Writers |-> IdleWriter]
    /\ committed = {}
    /\ lastSuccessfulPaginationKeys = [t \in Tables |-> 0]
    /\ taken = {}

\* RelocFerry after Initialize and Start, as Run is entered: no table is
\* copied yet, the streamer runs and the source is not locked.
InitRelocFerry ==
    /\ relocPc = "WaitUntilRowCopyIsComplete"
    /\ tablesToCopy = Tables
    /\ streamerLag = 0
    /\ streaming = "running"
    /\ ferryRunning = TRUE
    /\ sourceLock = "unlocked"
    /\ relocLog = <<>>
    /\ deltaCopied = {}

\* No state tables on the target yet, nothing loaded, nothing computed.
InitStateTracker ==
    /\ stateTables = NoStateTables
    /\ masterPos = Position(<<2>>, 4)
    /\ loaded = <<>>
    /\ serialized = <<>>
    /\ minPosition = [done |-> FALSE, pos |-> NilPosition]

Init ==
    /\ InitConfig
    /\ StateTracker = TRUE
    /\ InlineVerifier = FALSE
    /\ InitBinlogWriter
    /\ InitBatchWriter
    /\ InitRelocFerry /\ JoinedTables = {}
    /\ InitStateTracker
    /\ serializableState = SerializableState(NilPosition, NilPosition)

Next ==
    \/ \E event \in NextSourceEvents(sourceSchema) : BufferBinlogEvents(event)
    \/ DataIteratorDoneEvent
    \/ DataIteratorDoneSend
    \/ StopCloseEventChannel
    \/ StopCloseBinlogEventBuffer
    \/ RunReceive
    \/ RunQueueClosed
    \/ RunCommitOnEmptyQueue
    \/ RunForceCommit
    \/ RunAppend
    \/ PreApplyCallback
    \/ BarrierReceive
    \/ WriteEventsFailed
    \/ WriteEventsPositionSqlFailed
    \/ WriteEventsOk
    \/ PostApplyCallback
    \/ PostApplyMarkFailed

Spec == Init /\ [][Next]_vars

\* The steps of the Run goroutine that no failure is injected into.
RunStep ==
    \/ RunReceive
    \/ RunQueueClosed
    \/ RunCommitOnEmptyQueue
    \/ RunForceCommit
    \/ RunAppend
    \/ PreApplyCallback
    \/ BarrierReceive
    \/ WriteEventsOk
    \/ PostApplyCallback

\* The BinlogWriter system with a Run goroutine that is scheduled as long as
\* it can take a step.
SpecLive == Init /\ [][Next]_vars /\ WF_vars(RunStep)

\* The same with a DataIteratorDoneEvent whose calling goroutine is scheduled
\* too: a call that has incremented the counter goes on to its send.
SpecBarrier ==
    Init /\ [][Next]_vars /\ WF_vars(RunStep) /\ WF_vars(DataIteratorDoneSend)

\* The BatchWriter system: the writers share the target and the state
\* tracker; the BinlogWriter is not running.
InitBatch ==
    /\ BatchSize = 1
    /\ WriteRetries \in 1..MaxWriteRetries
    /\ ApplySchemaChanges = FALSE
    /\ ForceResumeStateUpdatesToDB = FALSE
    /\ StateTracker \in BOOLEAN
    /\ InlineVerifier \in BOOLEAN
    /\ InitBinlogWriter
    /\ InitBatchWriter
    /\ InitRelocFerry /\ JoinedTables = {}
    /\ InitStateTracker
    /\ serializableState = SerializableState(NilPosition, NilPosition)

NextBatch ==
    \E w \in Writers :
       \/ \E b \in 1..Len(RowBatches) : WriteRowBatch(w, b)
       \/ AttemptEmptyValues(w)
       \/ \E step \in {"GetUint64", "AsSQLQuery", "StmtFor", "Begin"} :
             AttemptFailsBeforeBegin(w, step)
       \/ AttemptBegin(w)
       \/ AttemptExecFailed(w)
       \/ AttemptExec(w)
       \/ AttemptVerifyError(w)
       \/ \E m \in SUBSET Range(BatchOf(w).rows) : AttemptVerifyMismatch(w, m)
       \/ AttemptCommitFailed(w)
       \/ AttemptCommit(w)
       \/ AttemptUpdateState(w)
       \/ RetryAttempt(w)
       \/ ReturnError(w)
       \/ WriteRowBatchDone(w)

SpecBatch == InitBatch /\ [][NextBatch]_vars

\* The two retry wrappers side by side: a BinlogWriter that flushes every
\* DML event of the rows events on t1 on its own, and one BatchWriter
\* goroutine writing two insert batches, without schema changes and without
\* the inline verifier.
InitRetry ==
    /\ BatchSize = 1
    /\ WriteRetries \in 1..MaxWriteRetries
    /\ ApplySchemaChanges = FALSE
    /\ ForceResumeStateUpdatesToDB = FALSE
    /\ StateTracker = TRUE
    /\ InlineVerifier = FALSE
    /\ InitBinlogWriter
    /\ InitBatchWriter
    /\ InitRelocFerry /\ JoinedTables = {}
    /\ InitStateTracker
    /\ serializableState = SerializableState(NilPosition, NilPosition)

NextRetry ==
    \/ \E r \in RowsShapes : BufferBinlogEvents(RowsEvent("t1", r))
    \/ RunReceive
    \/ RunAppend
    \/ WriteEventsFailed
    \/ WriteEventsOk
    \/ \E b \in 1..2 : WriteRowBatch("w1", b)
    \/ \E step \in {"GetUint64", "AsSQLQuery", "StmtFor", "Begin"} :
          AttemptFailsBeforeBegin("w1", step)
    \/ AttemptBegin("w1")
    \/ AttemptExecFailed("w1")
    \/ AttemptExec("w1")
    \/ AttemptCommitFailed("w1")
    \/ AttemptCommit("w1")
    \/ AttemptUpdateState("w1")
    \/ RetryAttempt("w1")
    \/ ReturnError("w1")
    \/ WriteRowBatchDone("w1")

SpecRetry == InitRetry /\ [][NextRetry]_vars

\* Neither the BinlogWriter nor the BatchWriter is running.
InitIdle ==
    /\ BatchSize = 1 /\ WriteRetries = 1
    /\ ApplySchemaChanges = FALSE /\ ForceResumeStateUpdatesToDB = FALSE
    /\ StateTracker = TRUE /\ InlineVerifier = FALSE
    /\ InitBinlogWriter
    /\ InitBatchWriter

\* The RelocFerry system: RelocFerry.Run, the Ferry it runs and the
\* application writing to the source, for every set of joined tables.
InitReloc ==
    /\ InitIdle
    /\ InitRelocFerry /\ JoinedTables \in SUBSET Tables
    /\ InitStateTracker
    /\ serializableState = SerializableState(NilPosition, NilPosition)

NextReloc ==
    \/ \E t \in Tables : FerryCopiesTable(t)
    \/ SourceWrite
    \/ FerryStreamerApplies
    \/ FerryStreamerStops
    \/ FerryRunReturns
    \/ RelocWaitUntilRowCopyIsComplete
    \/ RelocWaitUntilBinlogStreamerCatchesUp
    \/ RelocCutoverLock
    \/ RelocCutoverLockFailed
    \/ RelocFlushBinlogAndStopStreaming
    \/ RelocCopyWGWait
    \/ RelocDeltaCopyJoinedTables
    \/ RelocDeltaCopyFailed
    \/ RelocCutoverUnlock
    \/ RelocCutoverUnlockFailed

SpecReloc == InitReloc /\ [][NextReloc]_vars

\* MinBinlogPosition applied to every pair of positions.
InitMin ==
    /\ InitIdle
    /\ InitRelocFerry /\ JoinedTables = {}
    /\ InitStateTracker
    /\ serializableState \in
           {SerializableState(w, v) : w \in BinlogPositions, v \in BinlogPositions}

NextMin == CallMinBinlogPosition

SpecMin == InitMin /\ [][NextMin]_vars

\* The state tracker's persistence: the state tables on the target, loaded
\* and serialized again while the source moves on and rows are inserted.
InitState ==
    /\ InitIdle
    /\ InitRelocFerry /\ JoinedTables = {}
    /\ InitStateTracker
    /\ serializableState = SerializableState(NilPosition, NilPosition)

NextState ==
    \/ NewStateTrackerFromTargetDB
    \/ \E i \in 1..MaxLoads : Serialize(i)
    \/ SeedSourceDB
    \/ \E row \in StateRowsToInsert : InsertStateRow(row)

SpecState == InitState /\ [][NextState]_vars

\* The state tracker's table actions: the BatchWriter records pagination
\* keys, the data iterator and the BinlogWriter mark tables completed. The
\* state tables exist unless the state writer opts out.
InitTracker ==
    /\ InitIdle
    /\ InitRelocFerry /\ JoinedTables = {}
    /\ stateTables \in {NoStateTables, [NoStateTables EXCEPT !.created = TRUE]}
    /\ masterPos = Position(<<2>>, 4)
    /\ loaded = <<>>
    /\ serialized = <<>>
    /\ minPosition = [done |-> FALSE, pos |-> NilPosition]
    /\ serializableState = SerializableState(NilPosition, NilPosition)

NextTracker ==
    \/ \E t \in Tables, key \in PaginationKeys :
          TrackerUpdateLastSuccessfulPaginationKey(t, key)
    \/ \E t \in Tables : TrackerMarkTableAsCompleted(t)
    \/ \E t \in Tables,
          outcome \in {"ok", "GetStoreRowCopyDoneSql", "Exec"} :
          markTableAsCopied(t, outcome)

SpecTracker == InitTracker /\ [][NextTracker]_vars


\* ============================================================= properties
HasDDL(events) == \E k \in 1..Len(events) : events[k].kind = "DDL"

\* C1: no batch holding a DDL event has been written to the target unless
\* DataIteratorDoneEvent has been called (the counter has left 0).
C1_NoDDLBeforeDataIterationDone ==
    \A i \in 1..Len(written) :
        HasDDL(written[i].events) => dataIteratorDone >= 1

\* C1 witness: a DDL batch was written after the writer received the sentinel
\* at the barrier.
C1_Witness ==
    /\ doneSynced
    /\ \E i \in 1..Len(written) : HasDDL(written[i].events)

\* C2: every batch handed to applyBatch that holds a DDL event holds exactly
\* that one event.
C2_DDLBatchIsSingleton ==
    HasDDL(applying) => Len(applying) = 1

\* C3: a rows event is handed to handleRowsEvent only when no DDL event of an
\* earlier query event is still waiting in the batch, not yet applied.
C3_RowsTranslatedAfterDDLApplied ==
    replicationEvent.kind = "rows" =>
        \A k \in 1..Len(batch) :
            ~(batch[k].kind = "DDL" /\ batch[k].pos < replicationEvent.pos)

\* C4: the last-written binlog position changes only in a step of writeEvents
\* that executed the batch on the target, and after such a step it is the
\* position of the batch's last event; a failed or skipped write leaves it.
C4_PositionFollowsSuccessfulWrite ==
    [][ /\ lastWrittenBinlogPosition' # lastWrittenBinlogPosition =>
              /\ pc = "write"
              /\ Len(written') = Len(written) + 1
              /\ Last(written').events = applying
        /\ Len(written') = Len(written) + 1 =>
              lastWrittenBinlogPosition' = Last(applying).pos
        /\ (pc = "write" /\ written' = written) =>
              lastWrittenBinlogPosition' = lastWrittenBinlogPosition ]_vars

\* C4 witness: a write failed or was skipped, and the position stands at the
\* last event of a batch written after it.
C4_Witness ==
    /\ faults > 0
    /\ written # <<>>
    /\ lastWrittenBinlogPosition = Last(Last(written).events).pos
    /\ lastWrittenBinlogPosition = MaxEvents

\* C10: a shutdown observed at the schema barrier never reaches
\* ErrorHandler.Fatal.
C10_ShutdownAtBarrierIsNotFatal ==
    \A i \in 1..Len(fatal) : fatal[i].err # shutdownEvent


\* A call of WriteRowBatch on a non-empty InsertRowBatch that returned nil.
InsertSucceeded(w) ==
    /\ bw[w].pc = "returned"
    /\ bw[w].result = NoError
    /\ BatchOf(w).type = "InsertRowBatch"
    /\ BatchOf(w).rows # <<>>

\* C5 as stated: after a successful insert the rows are committed and, with a
\* state tracker attached, the tracker's key for the source table is the
\* pagination key of the batch's last row.
C5_TrackerKeyIsLastRowKey ==
    \A w \in Writers :
        InsertSucceeded(w) =>
            /\ bw[w].tx = "committed"
            /\ TargetRows(BatchOf(w)) \subseteq committed
            /\ (StateTracker /\ BatchOf(w).hasKey) =>
                   lastSuccessfulPaginationKeys[BatchOf(w).table]
                       = Last(BatchOf(w).rows)

\* C5 amended: after a successful insert the rows are committed in the
\* writer's one transaction and, with a state tracker attached, the tracker's
\* key for the source table is at least the pagination key of the batch's last
\* row; the tracker's key changes only once the rows are committed, and then
\* to that last key.
C5_TrackerKeyCoversLastRowKey ==
    /\ [](\A w \in Writers :
            InsertSucceeded(w) =>
                /\ bw[w].tx = "committed"
                /\ TargetRows(BatchOf(w)) \subseteq committed
                /\ (StateTracker /\ BatchOf(w).hasKey) =>
                       lastSuccessfulPaginationKeys[BatchOf(w).table]
                           >= Last(BatchOf(w).rows))
    /\ [][\A t \in Tables :
            lastSuccessfulPaginationKeys'[t] # lastSuccessfulPaginationKeys[t] =>
                \E w \in Writers :
                    /\ BatchOf(w).table = t
                    /\ bw[w].tx = "committed"
                    /\ TargetRows(BatchOf(w)) \subseteq committed
                    /\ lastSuccessfulPaginationKeys'[t] = Last(BatchOf(w).rows)]_vars

\* C5 witness: the batch ending at key 2 returned nil after the batch ending
\* at key 4 was recorded.
C5_Witness ==
    \E w \in Writers :
        /\ InsertSucceeded(w)
        /\ StateTracker
        /\ bw[w].batch = 1
        /\ lastSuccessfulPaginationKeys["t1"] = 4

\* An attempt of writer w has failed, or its error has been returned.
AttemptFailed(w) ==
    \/ bw[w].pc = "failed"
    \/ bw[w].pc = "returned" /\ bw[w].result # NoError

\* C6: after a failed attempt no row of the batch is committed and the
\* transaction, if one was begun, is rolled back; the step that fails changes
\* neither the target's rows nor the state tracker's keys.
C6_FailedAttemptLeavesNothing ==
    /\ [](\A w \in Writers :
            AttemptFailed(w) =>
                /\ bw[w].tx \in {"none", "rolledback"}
                /\ TargetRows(BatchOf(w)) \cap committed = {})
    /\ [][\A w \in Writers :
            (bw'[w].pc = "failed" /\ bw[w].pc # "failed") =>
                /\ committed' = committed
                /\ lastSuccessfulPaginationKeys' = lastSuccessfulPaginationKeys]_vars

\* C6 witness: a Commit failed and was rolled back while the other writer had
\* recorded a key.
C6_Witness ==
    \E w \in Writers :
        /\ bw[w].pc = "failed"
        /\ bw[w].result = PlainError("Commit")
        /\ bw[w].tx = "rolledback"
        /\ lastSuccessfulPaginationKeys["t1"] > 0

\* C7: when the inline verifier reports mismatched pagination keys the
\* transaction is rolled back, no row of the batch is committed, and the error
\* is a BatchWriterVerificationFailed carrying exactly those keys and the
\* source table's qualified name.
C7_MismatchRollsBackWithTypedError ==
    \A w \in Writers :
        (bw[w].pc = "failed" /\ bw[w].mismatches # {}) =>
            /\ bw[w].tx = "rolledback"
            /\ TargetRows(BatchOf(w)) \cap committed = {}
            /\ bw[w].result.type = "BatchWriterVerificationFailed"
            /\ bw[w].result.keys = bw[w].mismatches
            /\ bw[w].result.table =
                   [schema |-> SourceSchemaName, table |-> BatchOf(w).table]

\* C7 witness: a batch on a rewritten table failed verification on one key.
C7_Witness ==
    \E w \in Writers :
        /\ bw[w].pc = "failed"
        /\ bw[w].mismatches = {2}
        /\ BatchOf(w).table \in DOMAIN TableRewrites

\* C8: once the verifier has reported mismatches the write is not attempted
\* again, and WriteRowBatch returns the typed error with those keys.
C8_VerificationFailureNotRetried ==
    \A w \in Writers :
        bw[w].mismatches # {} =>
            /\ bw[w].pc \in {"failed", "returned"}
            /\ bw[w].pc = "returned" =>
                   /\ bw[w].result.type = "BatchWriterVerificationFailed"
                   /\ bw[w].result.keys = bw[w].mismatches

\* C8 witness: the typed error was returned from the first attempt although
\* attempts remained.
C8_Witness ==
    \E w \in Writers :
        /\ bw[w].pc = "returned"
        /\ bw[w].mismatches # {}
        /\ bw[w].attempt < WriteRetries

\* C9: the state tracker's last-successful pagination key of a table never
\* decreases.
C9_PaginationKeyNeverDecreases ==
    [][\A t \in Tables :
          lastSuccessfulPaginationKeys'[t] >= lastSuccessfulPaginationKeys[t]]_vars

\* C9 witness: two writers committed the batches of one table out of order,
\* the later key first, and both updates reached the state tracker.
C9_Witness ==
    /\ StateTracker
    /\ lastSuccessfulPaginationKeys["t1"] = 4
    /\ TargetRows(RowBatches[1]) \cup TargetRows(RowBatches[2]) \subseteq committed
    /\ \A w \in Writers : bw[w].pc = "returned" /\ bw[w].batch \in {1, 2}
    /\ \E w \in Writers : bw[w].batch = 1 /\ bw[w].attempt = 2

\* The DXL events of the written transactions, in the order of the writes.
RECURSIVE WrittenEvents(_)
WrittenEvents(w) ==
    IF w = <<>> THEN <<>> ELSE Head(w).events \o WrittenEvents(Tail(w))

IsPrefix(s, t) == Len(s) <= Len(t) /\ SubSeq(t, 1, Len(s)) = s

\* C11: when Run has returned, the queue is drained, no batch and no
\* translated event is pending, and every DXL event translated from the
\* queue has been written to the target.
C11_DrainedAndWrittenAtReturn ==
    pc = "done" =>
        /\ binlogEventBuffer = <<>>
        /\ batch = <<>>
        /\ dxlEvents = <<>>
        /\ WrittenEvents(written) = translated

\* C12: calls of DataIteratorDoneEvent on a writer that has not been
\* stopped put at most one sentinel on the control channel, exactly one once
\* the first call has returned; the send finds room in the channel; a call
\* after the first changes neither the channel nor the pending send.
C12_OneSentinelNeverBlocks ==
    /\ [](sent <= 1)
    /\ []((~channelClosed /\ ~panicked /\ doneCalls >= 1 /\ ~donePending)
             => sent = 1)
    /\ []((~channelClosed /\ donePending) => Len(eventChannel) < 1)
    /\ [][(doneCalls' = doneCalls + 1 /\ dataIteratorDone >= 1)
             => UNCHANGED <<eventChannel, donePending, sent>>]_vars

\* C12 witness: two calls have returned on a running writer, one sentinel
\* has been sent.
C12_Witness ==
    /\ doneCalls = 2 /\ ~donePending /\ sent = 1
    /\ ~channelClosed /\ ~panicked

\* C15: the DXL events written so far are the first of the translated ones,
\* in their order: none lost, duplicated or reordered.
C15_WrittenIsPrefixOfTranslated ==
    IsPrefix(WrittenEvents(written), translated)

\* C16: whenever writeEvents reports success to applyBatch, the batch's
\* statements have been executed on the target in one more transaction.
C16_SuccessMeansExecuted ==
    [][(pc = "write" /\ pc' \notin {"write", "fatal"})
         => Len(written') = Len(written) + 1
            /\ SubSeq(written', 1, Len(written)) = written
            /\ Last(written').events = applying]_vars

\* The cutover steps RelocFerry.Run has completed, without the failure mark.
CompletedSteps ==
    IF relocLog # <<>> /\ Last(relocLog) = "failed"
    THEN SubSeq(relocLog, 1, Len(relocLog) - 1)
    ELSE relocLog

\* C13: RelocFerry.Run completes its steps in the order row copy complete,
\* streamer caught up, lock POST, streaming stopped, Ferry.Run returned,
\* delta copy, unlock POST; the row copy is complete when the first step
\* returns, the streamer has caught up when the second returns; the delta copy
\* runs, and has run, only with the source locked, streaming stopped and
\* Ferry.Run returned; the source is released only after the delta copy.
C13_CutoverOrder ==
    /\ [](IsPrefix(CompletedSteps, CutoverSteps))
    /\ [](Len(CompletedSteps) >= 1 => tablesToCopy = {})
    /\ [][relocPc = "WaitUntilBinlogStreamerCatchesUp" /\ relocPc' # relocPc
             => streamerLag = 0]_vars
    /\ []((relocPc = "deltaCopyJoinedTables" \/ deltaCopied # {})
             => /\ streaming = "stopped" /\ streamerLag = 0
                /\ ~ferryRunning
                /\ Len(CompletedSteps) >= 5)
    /\ [][deltaCopied' # deltaCopied
             => sourceLock = "locked" /\ sourceLock' = "locked"]_vars
    /\ [](sourceLock = "released" => CompletedSteps = CutoverSteps)

\* C13 witness: Run has returned after a delta copy of a joined table.
C13_Witness ==
    /\ relocPc = "done" /\ relocLog = CutoverSteps
    /\ deltaCopied = {"t1"} /\ sourceLock = "released"

\* C14: a failure of the lock POST, of the delta copy or of the unlock POST
\* is reported once through ErrorHandler.Fatal with component "reloc", and
\* after it no cutover step is performed: a failed lock leaves the source
\* unlocked and the streamer running, a failed delta copy or unlock leaves
\* the source locked, and nothing changes afterwards.
C14_FailureIsFatalAndFinal ==
    /\ [](\A k \in 1..Len(relocLog) :
             relocLog[k] = "failed" => k = Len(relocLog))
    /\ []((relocLog # <<>> /\ Last(relocLog) = "failed")
             <=> relocPc = "fatal")
    /\ [](IF relocPc = "fatal"
          THEN /\ Len(fatal) = 1
               /\ fatal[1].component = "reloc"
               /\ fatal[1].err = CutoverSteps[Len(CompletedSteps) + 1]
               /\ fatal[1].err \in
                      {"CutoverLock", "deltaCopyJoinedTables", "CutoverUnlock"}
          ELSE fatal = <<>>)
    /\ []((relocPc = "fatal" /\ fatal[1].err = "CutoverLock")
             => sourceLock = "unlocked" /\ streaming = "running"
                /\ deltaCopied = {})
    /\ []((relocPc = "fatal" /\ fatal[1].err = "deltaCopyJoinedTables")
             => sourceLock = "locked" /\ deltaCopied = {})
    /\ []((relocPc = "fatal" /\ fatal[1].err = "CutoverUnlock")
             => sourceLock = "locked")
    /\ [][relocPc = "fatal" => UNCHANGED relocVars]_vars

\* C14 witness: the delta copy has failed with the source locked.
C14_Witness ==
    /\ relocPc = "fatal"
    /\ fatal = <<[component |-> "reloc", err |-> "deltaCopyJoinedTables"]>>
    /\ sourceLock = "locked"

\* File name a sorts before file name b as a string.
NameBefore(a, b) ==
    \E k \in 0..Len(a) :
        /\ k <= Len(b)
        /\ SubSeq(a, 1, k) = SubSeq(b, 1, k)
        /\ \/ k = Len(a) /\ k < Len(b)
           \/ k < Len(a) /\ k < Len(b) /\ a[k + 1] < b[k + 1]

\* Position p is not after position q: file name first, then offset.
NotAfter(p, q) ==
    \/ NameBefore(p.Name, q.Name)
    \/ p.Name = q.Name /\ p.Pos <= q.Pos

\* C17: MinBinlogPosition returns the one of the writer's and the verifier's
\* positions that is not after the other, a position with an empty file name
\* being left out; with both names empty it returns the empty position.
C17_MinIsSmallerNonEmptyPosition ==
    minPosition.done =>
        LET w == serializableState.LastWrittenBinlogPosition
            v == serializableState.LastStoredBinlogPositionForInlineVerifier
            m == minPosition.pos
        IN /\ (w.Name = <<>> /\ v.Name = <<>>) => m = NilPosition
           /\ (w.Name = <<>> /\ v.Name # <<>>) => m = v
           /\ (w.Name # <<>> /\ v.Name = <<>>) => m = w
           /\ (w.Name # <<>> /\ v.Name # <<>>)
                 => m \in {w, v} /\ NotAfter(m, w) /\ NotAfter(m, v)

\* C17 witness: the writer is at file 3, offset 4, the verifier at file 2,
\* offset 10, and the verifier's position has been returned.
C17_Witness ==
    /\ minPosition.done
    /\ serializableState =
           SerializableState(Position(<<3>>, 4), Position(<<2>>, 10))
    /\ minPosition.pos = Position(<<2>>, 10)

\* Row r names a table of the schema cache and its payload is not JSON.
CorruptedKnownRow(r) ==
    TableSchema[r.table_name] # 0 /\ r.last_pagination_key # "json"

\* C18: a load fails exactly when a row of the state table names a known
\* table and holds a payload that is not JSON; otherwise it returns a tracker.
C18_LoadFailsIffKnownRowCorrupted ==
    \A i \in 1..Len(loaded) :
        /\ loaded[i].err <=>
               \E k \in 1..Len(loaded[i].rows) :
                   CorruptedKnownRow(loaded[i].rows[k])
        /\ loaded[i].tracker <=> ~loaded[i].err

\* C18 witness: a load over a corrupted row of an unknown table has returned
\* a tracker, and a later load over a corrupted row of a known table failed.
C18_Witness ==
    /\ Len(loaded) = 3
    /\ loaded[2].rows = <<StateRow("t2", "not json")>>
    /\ ~loaded[2].err /\ loaded[2].tracker
    /\ loaded[3].rows = <<StateRow("t2", "not json"), StateRow("t1", "not json")>>
    /\ loaded[3].err

\* C19: every successful load returns the LastWrittenBinlogPosition the
\* first load stored, whatever the source's master position has become, and
\* Serialize on a loaded tracker returns the position the load returned.
C19_PositionSurvivesReload ==
    /\ \A i \in 1..Len(loaded) :
          ~loaded[i].err =>
              /\ ~loaded[1].err
              /\ loaded[i].LastWrittenBinlogPosition =
                     loaded[1].LastWrittenBinlogPosition
              /\ stateTables.created
              /\ loaded[i].LastWrittenBinlogPosition =
                     LoadPosition(stateTables.position)
    /\ \A i \in 1..Len(serialized) :
          serialized[i].done =>
              serialized[i].LastWrittenBinlogPosition =
                  loaded[i].LastWrittenBinlogPosition

\* C19 witness: two loads with the source's master position moved on in
\* between, both serialized.
C19_Witness ==
    /\ Len(loaded) >= 2
    /\ ~loaded[1].err /\ ~loaded[2].err
    /\ serialized[1].done /\ serialized[2].done
    /\ ComparePositions(masterPos, serialized[1].LastWrittenBinlogPosition) > 0
    /\ serialized[2].LastWrittenBinlogPosition = Position(<<2>>, 4)

ActionRank(action) ==
    CASE action = "none" -> 0
      [] action = TableActionWaiting -> 1
      [] action = TableActionCopying -> 2
      [] action = TableActionCompleted -> 3

\* C20: no operation moves a table's action backward in the order waiting,
\* copying, completed; a completed table stays completed.
C20_TableActionOnlyForward ==
    /\ [](\A t \in Tables :
             tableAction[t] \in {"none", TableActionWaiting,
                                 TableActionCopying, TableActionCompleted})
    /\ [][\A t \in Tables :
             ActionRank(tableAction'[t]) >= ActionRank(tableAction[t])]_vars

\* C20 witness: t2, completed by the BinlogWriter, has had a pagination key
\* recorded since and is still completed, as is t1 after its copy.
C20_Witness ==
    /\ tableAction["t2"] = TableActionCompleted
    /\ lastSuccessfulPaginationKeys["t2"] = 1
    /\ tableAction["t1"] = TableActionCompleted
    /\ lastSuccessfulPaginationKeys["t1"] = 2

\* Where Run is outside applyBatch.
InRun == {"loop", "emit", "append"}

\* C21: a flush takes a non-empty batch through the pre-apply callbacks in
\* batch order, then writeEvents, then the post-apply callbacks in batch
\* order; no callback entry is skipped; nothing is written to the target
\* outside writeEvents; a failed pre-apply callback is fatal with nothing
\* written, a write that fails for good is fatal with no post-apply callback
\* run, and a writer that reported a fatal error does nothing more.
C21_FlushPhases ==
    /\ [][(pc \in InRun /\ pc' \in {"pre", "write"})
             => /\ applying' # <<>>
                /\ idx' = NextPreApply(applying', 1)
                /\ pc' = "write" <=> idx' > Len(applying')]_vars
    /\ [][(pc \in {"pre", "barrier"} /\ <<pc, idx>>' # <<pc, idx>>)
             => /\ pc' \in {"pre", "barrier", "write", "fatal"}
                /\ written' = written
                /\ pc' = "barrier" => idx' = idx
                /\ pc' \in {"pre", "write"}
                      => /\ idx' = NextPreApply(applying, idx + 1)
                         /\ pc' = "write" <=> idx' > Len(applying)
                /\ pc' = "fatal" => Len(fatal') = Len(fatal) + 1]_vars
    /\ [][pc' = "write" => pc \in InRun \cup {"pre", "barrier", "write"}]_vars
    /\ [][written' # written => pc = "write"]_vars
    /\ [][(pc = "write" /\ pc' # pc)
             => /\ pc' \in InRun \cup {"post", "fatal"}
                /\ pc' = "post" => idx' = NextPostApply(applying, 1)
                /\ pc' \in InRun => NextPostApply(applying, 1) > Len(applying)
                /\ pc' = "fatal"
                      => /\ Len(fatal') = Len(fatal) + 1
                         /\ UNCHANGED <<TableSchema, tableAction, written>>]_vars
    /\ [][(TableSchema' # TableSchema \/ tableAction' # tableAction)
             => pc = "post"]_vars
    /\ [][(pc = "post" /\ <<pc, idx>>' # <<pc, idx>>)
             => /\ pc' \in InRun \cup {"post", "fatal"}
                /\ pc' = "post" => idx' = NextPostApply(applying, idx + 1)
                /\ pc' \in InRun
                      => NextPostApply(applying, idx + 1) > Len(applying)]_vars
    /\ [][pc = "fatal" => UNCHANGED <<runVars, dbVars, fatal>>]_vars

\* C21 witness: a batch with a DDL event has been through its pre-apply
\* callback and the barrier, has been written, and its post-apply callback is
\* about to run.
C21_Witness ==
    /\ pc = "post" /\ HasDDL(applying) /\ doneSynced
    /\ written # <<>> /\ Last(written).events = applying

\* The table a DDL event of its own creates, alters or renames to.
OwnReloadTable(e) ==
    CASE e.op \in {"create", "alter"} -> e.table
      [] e.op = "rename" -> e.created
      [] OTHER -> NoTable

\* C22: when the post-apply callback of a DDL event returns without error,
\* the table the event creates, alters or renames to is on the target, its
\* cache entry carries the target's schema and the tracker has it completed;
\* the callback of a drop changes no cache entry and no table action.
C22_ReloadedAndCompletedAfterDDL ==
    [][(pc = "post" /\ pc' # "fatal" /\ <<pc, idx>>' # <<pc, idx>>)
         => LET X == OwnReloadTable(applying[idx]) IN
            IF X # NoTable
            THEN /\ targetSchema[X] # 0
                 /\ TableSchema'[X] = targetSchema[X]
                 /\ tableAction'[X] = TableActionCompleted
            ELSE applying[idx].op = "drop"
                    => UNCHANGED <<TableSchema, tableAction>>]_vars

\* C22 witness: t2, which the cache did not hold, was created by a DDL
\* event; its entry now carries the target's schema and it is completed.
C22_Witness ==
    /\ pc \in InRun
    /\ TableSchema["t2"] # 0 /\ TableSchema["t2"] = targetSchema["t2"]
    /\ tableAction["t2"] = TableActionCompleted
    /\ \E k \in 1..Len(written) :
          \E n \in 1..Len(written[k].events) :
              written[k].events[n].op = "create"

\* C23: a table the schema cache holds stays in it, and an entry changes
\* only in a post-apply callback that reloads this very table, to the
\* target's schema of it; a drop or rename leaves the old entry as it is.
C23_CacheEntriesAreKept ==
    [][\A t \in Tables :
         /\ TableSchema[t] # 0 => TableSchema'[t] # 0
         /\ TableSchema'[t] # TableSchema[t]
               => /\ pc = "post"
                  /\ t \in Range(applying[idx].reload)
                  /\ TableSchema'[t] = targetSchema[t]]_vars

\* C23 witness: t1 has been dropped or renamed on the target by a written
\* DDL event whose post-apply callback has returned, and the cache still
\* holds its entry.
C23_Witness ==
    /\ pc \in InRun
    /\ targetSchema["t1"] = 0 /\ TableSchema["t1"] = 1
    /\ \E k \in 1..Len(written) :
          \E n \in 1..Len(written[k].events) :
              written[k].events[n].deleted = "t1"

\* C24: with ApplySchemaChanges off, handleQueryEvent returns no DXL event
\* for any descriptors; no DDL event is translated or written, the writer is
\* never in a callback or at the barrier, and the schema cache and the
\* table actions stay as they were at the start.
C24_SchemaChangesDisabled ==
    ~ApplySchemaChanges =>
        /\ \A q \in QueryShapes, e \in BOOLEAN :
              handleQueryEvent(QueryEvent(q, e), ApplySchemaChanges).events = <<>>
        /\ ~HasDDL(translated) /\ ~HasDDL(batch) /\ ~HasDDL(applying)
        /\ \A k \in 1..Len(written) : ~HasDDL(written[k].events)
        /\ pc \notin {"pre", "barrier", "post"}
        /\ ~doneSynced
        /\ TableSchema = [t \in Tables |-> IF t = "t1" THEN 1 ELSE 0]
        /\ targetSchema = [t \in Tables |-> IF t = "t1" THEN 1 ELSE 0]
        /\ tableAction =
               [t \in Tables |-> IF t = "t1" THEN TableActionWaiting ELSE "none"]

\* C24 witness: with ApplySchemaChanges off the writer has received a query
\* event with a schema change, then a rows event, and has written the rows.
C24_Witness ==
    /\ ~ApplySchemaChanges
    /\ produced = 2 /\ binlogEventBuffer = <<>>
    /\ sourceSchema = {"t1", "t2"}
    /\ replicationEvent.kind = "rows"
    /\ pc = "loop" /\ written # <<>>

\* A DML-only batch is pending and holds an event of position p.
PendingAt(p) ==
    /\ ~HasDDL(batch)
    /\ \E k \in 1..Len(batch) : batch[k].pos = p

\* An event of position p is in a written transaction.
WrittenAt(p) ==
    \E k \in 1..Len(written) :
        \E n \in 1..Len(written[k].events) : written[k].events[n].pos = p

\* C25: an event in a pending batch that waits for no schema barrier is
\* eventually written to the target, whether or not further events arrive,
\* unless the writer has stopped on a fatal error or a panic.
C25_PendingBatchIsWritten ==
    \A p \in 1..MaxEvents :
        PendingAt(p) ~> (WrittenAt(p) \/ pc = "fatal" \/ panicked)

C27_AttemptsAreBounded ==
    /\ [](WriteRetries >= 1)
    /\ [](pc = "write" => attempt \in 1..WriteRetries)
    /\ [](\A w \in Writers : bw[w].attempt <= WriteRetries)
    /\ [][(pc = "write" /\ written' # written) => pc' # "write"]_vars
    /\ [][(pc = "write" /\ pc' = "write" /\ attempt' # attempt)
             => attempt' = attempt + 1 /\ written' = written]_vars
    /\ [][(pc = "write" /\ pc' = "fatal")
             => /\ attempt = WriteRetries
                /\ written' = written
                /\ fatal' = Append(fatal,
                       [component |-> "binlog_writer",
                        err |-> "write events to target"])]_vars
    /\ [][\A w \in Writers :
             /\ (bw[w].pc = "start" /\ bw'[w].pc = "start"
                   /\ bw'[w].attempt # bw[w].attempt) => FALSE
             /\ (bw[w].pc = "failed" /\ bw'[w].pc = "start")
                   => /\ bw'[w].attempt = bw[w].attempt + 1
                      /\ bw[w].attempt < WriteRetries
             /\ (bw[w].pc = "failed" /\ bw'[w].pc = "returned")
                   => /\ bw[w].attempt = WriteRetries
                      /\ bw'[w].result.type = "retry limit exceeded"
             /\ (bw[w].pc = "committed" /\ bw'[w].pc = "returned")
                   => bw'[w].result = NoError]_vars

\* C27 witness: with WriteRetries = 2 a WriteRowBatch call has returned the
\* retry-limit error after its second attempt, while the BinlogWriter is in
\* the second attempt of a flush.
C27_Witness ==
    /\ WriteRetries = 2
    /\ bw["w1"].pc = "returned" /\ bw["w1"].attempt = 2
    /\ bw["w1"].result.type = "retry limit exceeded"
    /\ pc = "write" /\ attempt = 2

\* C28: the pending batch, the batch handed to writeEvents, every written
\* transaction and the event queue hold at most BatchSize entries.
C28_BatchAndQueueBounded ==
    /\ BatchSize >= 1
    /\ Len(batch) <= BatchSize
    /\ Len(applying) <= BatchSize
    /\ \A k \in 1..Len(written) : Len(written[k].events) <= BatchSize
    /\ Len(binlogEventBuffer) <= BatchSize

\* C28 witness: with BatchSize = 1 one replication event has been translated
\* into two DXL events, written in two transactions, with the queue full.
C28_Witness ==
    /\ BatchSize = 1
    /\ Len(written) = 2
    /\ written[1].events[1].pos = written[2].events[1].pos
    /\ Len(binlogEventBuffer) = BatchSize

\* The DXL events Run has appended to a batch so far: the translated ones
\* without those of the current replication event that still wait.
Emitted == SubSeq(translated, 1, Len(translated) - Len(dxlEvents))

\* The number of events of position p in a sequence of DXL events.
CountAt(s, p) == Cardinality({k \in 1..Len(s) : s[k].pos = p})

\* C29: every DXL event that was appended to a batch and whose position is
\* at or before the state tracker's last-written binlog position is in a
\* transaction committed to the target.
C29_CheckpointCoversOnlyWritten ==
    \A p \in 1..MaxEvents :
        p <= lastWrittenBinlogPosition =>
            CountAt(Emitted, p) = CountAt(WrittenEvents(written), p)

\* RelocFerry.Run has ended: it has returned, or Fatal has stopped it.
RelocRunEnded == relocPc \in {"done", "fatal"}

\* The cutover unlock POST was sent, whatever its answer.
UnlockIssued ==
    \/ \E k \in 1..Len(relocLog) : relocLog[k] = "CutoverUnlock"
    \/ \E k \in 1..Len(fatal) : fatal[k].err = "CutoverUnlock"

\* C30: when a run of RelocFerry.Run in which the cutover lock POST
\* succeeded has ended, the cutover unlock POST has been issued.
C30_UnlockIssuedAfterLock ==
    (RelocRunEnded /\ \E k \in 1..Len(relocLog) : relocLog[k] = "CutoverLock")
        => UnlockIssued

\* C31: whatever the interleaving of Stop with BufferBinlogEvents and
\* DataIteratorDoneEvent, no send is performed on a channel Stop has closed
\* (such a send is a runtime panic).
C31_NoSendOnClosedChannel == ~panicked

\* The DDL statement of the query event at position p that creates, alters
\* or renames to table t is in a written transaction.
OwnDDLWritten(t, p) ==
    \E k \in 1..Len(written) :
        \E n \in 1..Len(written[k].events) :
            LET e == written[k].events[n] IN
            e.kind = "DDL" /\ e.pos = p /\ OwnReloadTable(e) = t

\* C32: when the post-apply callback of a DDL event runs, the DDL statement
\* of every table the callback reloads from the target has been written to
\* the target.
C32_ReloadsOnlyAppliedTables ==
    pc = "post" =>
        \A k \in 1..Len(applying[idx].reload) :
            OwnDDLWritten(applying[idx].reload[k], applying[idx].pos)

\* The writer is in the pre-apply callbacks of a batch: at the read of
\* dataIteratorDone or at the receive of waitUntilCopyPhaseCompleted.
AtBarrier == pc \in {"pre", "barrier"}

\* C33: no wake-up is lost at the schema barrier.  A wait that is blocked
\* when the first DataIteratorDoneEvent has returned finds the sentinel in
\* the channel; a wait on the open channel returns success; and once
\* DataIteratorDoneEvent has been called, a writer in the pre-apply callbacks
\* of a batch gets past them and the batch with its DDL is written, for
\* every DDL batch in turn, unless Stop or an injected failure intervenes.
C33_NoLostWakeUp ==
    /\ []((pc = "barrier" /\ dataIteratorDone >= 1 /\ ~donePending
              /\ ~channelClosed /\ ~panicked)
             => eventChannel = <<eventChannelDataIterationDone>>)
    /\ [][(pc = "barrier" /\ ~channelClosed /\ <<pc, idx>>' # <<pc, idx>>)
             => pc' \in {"pre", "write"} /\ doneSynced']_vars
    /\ [](sent <= 1)
    /\ (AtBarrier /\ doneCalls >= 1)
           ~> \/ /\ pc = "post" /\ HasDDL(applying)
                 /\ written # <<>> /\ Last(written).events = applying
              \/ faults > 0 \/ channelClosed \/ panicked

\* C33 witness: two DDL batches were written one after the other on a
\* writer that received the one sentinel at the barrier and was not stopped.
C33_Witness ==
    /\ doneCalls >= 1 /\ sent = 1 /\ doneSynced
    /\ ~channelClosed /\ ~panicked /\ faults = 0
    /\ Len(written) = 2
    /\ HasDDL(written[1].events) /\ HasDDL(written[2].events)

====
